---- MODULE Spec2Model ----
(***************************************************************************)
(* Verification model of the autonomous trading orchestrator               *)
(* (services/auto_trading.py), its position store (data/user_data.py,      *)
(* services/statistics.py) and the volatility risk calibrator              *)
(* (services/trading.py).                                                  *)
(*                                                                         *)
(* Numbers.  The program computes in binary floating point; the model      *)
(* computes in fixed point:                                                *)
(*   prices          integer ticks                                         *)
(*   percentages     PctUnit-ths of a percent (the program rounds its      *)
(*                   reported percentages to three decimals)               *)
(*   price levels    ticks * LevelScale, so that entry * (1 - pct/100)     *)
(*                   is exact                                              *)
(*   clock           whole minutes                                         *)
(***************************************************************************)
EXTENDS Integers, Sequences, FiniteSets, TLC

(***************************************************************************)
(* Generic helpers                                                         *)
(***************************************************************************)
Max(a, b) == IF a >= b THEN a ELSE b
Min(a, b) == IF a <= b THEN a ELSE b
Abs(a) == IF a < 0 THEN -a ELSE a

\* Python's None for a number that is absent
None == -1

\* sum(s[lo..hi])
RECURSIVE SumRange(_, _, _)
SumRange(s, lo, hi) == IF lo > hi THEN 0 ELSE s[lo] + SumRange(s, lo + 1, hi)

\* sum(s[-k:])
SumLast(s, k) == SumRange(s, Max(1, Len(s) - k + 1), Len(s))

(***************************************************************************)
(* Risk calibrator: TradingEngine.calculate_scalping_sl_tp                 *)
(***************************************************************************)
PctUnit == 1000
LevelScale == 100 * PctUnit
AtrUnit == PctUnit              \* ATR is kept in AtrUnit-ths of a tick

MIN_OHLCV == 50
ATR_PERIOD == 14
RECENT_PERIOD == 7
TARGET_RR == 3

\* tr.append(max(h - l, abs(h - prev_close), abs(l - prev_close)))
\* prev_close starts as closes[0], then is the close of the previous candle
TrueRange(ohlcv) ==
    [i \in 1..Len(ohlcv) |->
        LET prev_close == IF i = 1 THEN ohlcv[1].c ELSE ohlcv[i - 1].c
            h == ohlcv[i].h
            l == ohlcv[i].l
        IN  Max(h - l, Max(Abs(h - prev_close), Abs(l - prev_close)))]

\* atr_ema = tr[0]; for tr_val in tr[1:]: atr_ema = alpha*tr_val + (1-alpha)*atr_ema
\* with alpha = 2/(period+1)
RECURSIVE AtrEma(_, _)
AtrEma(tr, n) ==
    IF n = 1 THEN tr[1] * AtrUnit
    ELSE (2 * tr[n] * AtrUnit + (ATR_PERIOD + 1 - 2) * AtrEma(tr, n - 1))
            \div (ATR_PERIOD + 1)

\* atr_sma = sum(tr[-period:]) / period
AtrSma(tr) == (SumLast(tr, ATR_PERIOD) * AtrUnit) \div ATR_PERIOD

\* volatility_ratio = recent_atr / long_atr clamped to [0.8, 1.5]
VolatilityRatio(tr) ==
    LET recent == SumLast(tr, RECENT_PERIOD)
        long == SumLast(tr, ATR_PERIOD)
        raw == IF long > 0
               THEN (recent * ATR_PERIOD * PctUnit) \div (long * RECENT_PERIOD)
               ELSE PctUnit
    IN  Max((8 * PctUnit) \div 10, Min((15 * PctUnit) \div 10, raw))

\* adaptive minimum stop distance (base 0.30 %)
MinSlPct(atr_pct) ==
    LET base == (30 * PctUnit) \div 100
    IN  IF atr_pct > (15 * PctUnit) \div 10 THEN (base * 13) \div 10
        ELSE IF atr_pct < (5 * PctUnit) \div 10 THEN (base * 9) \div 10
        ELSE base

\* adaptive minimum target distance (base 0.55 %)
MinTpPct(atr_pct) ==
    LET base == (55 * PctUnit) \div 100
    IN  IF atr_pct > (15 * PctUnit) \div 10 THEN (base * 13) \div 10
        ELSE IF atr_pct < (5 * PctUnit) \div 10 THEN (base * 9) \div 10
        ELSE base

\* hard caps: stop <= 2.5 % / 2.0 %, target <= 5.0 % / 4.0 %
MaxSlPct(atr_pct) == IF atr_pct > PctUnit THEN (25 * PctUnit) \div 10 ELSE 2 * PctUnit
MaxTpPct(atr_pct) == IF atr_pct > PctUnit THEN 5 * PctUnit ELSE 4 * PctUnit

\* the stop and target distances after the minimum, stretch, volatile-pair
\* and hard-cap adjustments, in the order the code applies them
ScalpingPcts(atr_pct, vr) ==
    LET sl0 == Max(MinSlPct(atr_pct), (atr_pct * 12 * vr) \div (10 * PctUnit))
        tp0 == Max(MinTpPct(atr_pct), (atr_pct * 15 * vr) \div (10 * PctUnit))
        \* if tp_pct / sl_pct < target_rr: tp_pct = sl_pct * target_rr
        tp1 == IF tp0 < TARGET_RR * sl0 THEN sl0 * TARGET_RR ELSE tp0
        \* volatile pairs: raise the target to min(2*atr_pct, 5.0) and, when
        \* the ratio exceeds 1.2 * target_rr, widen the stop to tp / target_rr
        volatile == atr_pct > PctUnit /\ tp1 < 5 * PctUnit
        max_tp_for_volatile == Min(atr_pct * 2, 5 * PctUnit)
        raise == volatile /\ tp1 < max_tp_for_volatile
        tp2 == IF raise THEN max_tp_for_volatile ELSE tp1
        sl2 == IF raise /\ 10 * tp2 > 12 * TARGET_RR * sl0
               THEN tp2 \div TARGET_RR ELSE sl0
    IN  [sl_pct |-> Min(sl2, MaxSlPct(atr_pct)),
         tp_pct |-> Min(tp2, MaxTpPct(atr_pct))]

NullLevels(why) ==
    [stop_loss |-> None, take_profit |-> None, reason |-> why,
     atr_pct |-> 0, sl_pct |-> 0, tp_pct |-> 0, has_meta |-> FALSE]

\* variant: both directions get the long placement
LevelsForLongOnly(entry, direction, p, atr_pct) ==
    [stop_loss |-> entry * (LevelScale - p.sl_pct),
     take_profit |-> entry * (LevelScale + p.tp_pct),
     reason |-> "", atr_pct |-> atr_pct,
     sl_pct |-> p.sl_pct, tp_pct |-> p.tp_pct, has_meta |-> TRUE]

\* stop_loss / take_profit placed on the side of entry the direction asks for
\* (any direction other than "long" is treated as short)
LevelsFor(entry, direction, p, atr_pct) ==
    LET is_long == direction = "long"
    IN  [stop_loss |-> IF is_long THEN entry * (LevelScale - p.sl_pct)
                                  ELSE entry * (LevelScale + p.sl_pct),
         take_profit |-> IF is_long THEN entry * (LevelScale + p.tp_pct)
                                    ELSE entry * (LevelScale - p.tp_pct),
         reason |-> "", atr_pct |-> atr_pct,
         sl_pct |-> p.sl_pct, tp_pct |-> p.tp_pct, has_meta |-> TRUE]

\* variant: the candle-count guard is left out, only the true-range guard
\* remains
calculate_without_ohlcv_guard(entry, direction, ohlcv) ==
    IF entry <= 0 THEN NullLevels("entry<=0")
    ELSE LET tr == TrueRange(ohlcv)
         IN  IF Len(tr) < ATR_PERIOD + 1 THEN NullLevels("not_enough_tr")
             ELSE LET atr == (AtrEma(tr, Len(tr)) + AtrSma(tr)) \div 2
                      atr_pct == (atr * 100) \div entry
                      vr == VolatilityRatio(tr)
                  IN  LevelsFor(entry, direction, ScalpingPcts(atr_pct, vr), atr_pct)

calculate_scalping_sl_tp(entry, direction, ohlcv) ==
    IF entry <= 0 THEN NullLevels("entry<=0")
    ELSE IF Len(ohlcv) < MIN_OHLCV THEN NullLevels("not_enough_ohlcv")
    ELSE LET tr == TrueRange(ohlcv)
         IN  IF Len(tr) < ATR_PERIOD + 1 THEN NullLevels("not_enough_tr")
             ELSE LET atr == (AtrEma(tr, Len(tr)) + AtrSma(tr)) \div 2
                      \* atr_pct = atr / entry * 100   (AtrUnit = PctUnit)
                      atr_pct == (atr * 100) \div entry
                      vr == VolatilityRatio(tr)
                  IN  LevelsFor(entry, direction, ScalpingPcts(atr_pct, vr), atr_pct)

(***************************************************************************)
(* Program constants and configuration defaults                            *)
(***************************************************************************)
Users == {1, 2}
DEFAULT_PAIRS == <<"ZEC", "WIF">>
Symbols == {DEFAULT_PAIRS[i] : i \in 1..Len(DEFAULT_PAIRS)}

INITIAL_BALANCE == 1000000       \* 10000.00 USDT, in ticks (cents)
MAX_DRAWDOWN_PERCENT == 20
SL_COOLDOWN_MINUTES == 15
MAX_HOLDING_MINUTES == 7
FORCE_CLOSE_MINUTES == 10
MAX_OPEN_POSITIONS == 5
ATR_MIN_PERCENT == 250           \* 0.25 %, in PctUnit-ths of a percent
POSITION_VALUE == 10000          \* 100.00 USDT, in ticks (cents)
AmountUnit == PctUnit            \* amounts are kept in AmountUnit-ths of a coin

(***************************************************************************)
(* Bounds of the model                                                     *)
(***************************************************************************)
MaxTasks == 3                    \* asyncio tasks alive at once
TwoTasks == 4                    \* the same, in a session of two accounts
TwoCommands == 2                 \* toggle commands in a session of two accounts
MaxCommands == 2                 \* toggle commands in a trading session
MaxTrades == 1                   \* rows created in the trade store
MaxTime == 16                    \* minutes on the clock
LoopCommands == 3                \* toggle commands when the loops are studied
LoopTime == 7                    \* minutes on the clock when the loops are studied
CooldownTrades == 2              \* rows created when the cooldown is studied
MidPrice == 10000                \* the price level the market moves around

TaskIds == 1..(IF TwoTasks > MaxTasks THEN TwoTasks ELSE MaxTasks)

(***************************************************************************)
(* State                                                                   *)
(***************************************************************************)
VARIABLES
    accounts,      \* the accounts that use the bot in this behaviour
    use_database,  \* UserDataManager.use_database / StatisticsManager.use_database
    user_data,     \* the persisted user record: user -> settings
    trades,        \* the trade store (trades table / demo_positions list)
    exchange,      \* the exchange's side of a live account: user -> open
                   \* positions (symbols) and equity
    active_tasks,  \* AutoTradingManager.active_tasks: user -> task id, 0 = absent
    tasks,         \* the asyncio tasks: id -> kind, owner, position, cancel request
    sl_cooldowns,  \* AutoTradingManager.sl_cooldowns: <<user, symbol>> -> time, None = absent
    now,           \* the clock, in minutes
    event,         \* what the last step announced (orders, notifications)
    commands,      \* toggle commands the user has sent so far
    limits,        \* what the environment does in this behaviour: how many
                   \* commands, rows and minutes, which way the market trends,
                   \* whether candle requests can fail
    cal,           \* one call of the risk calibrator: its arguments and result
    ana,           \* one pass of TradingEngine.analyze_and_trade over an instrument
    sel,           \* the pair list of one scan loop: the stored list, the cycle's
                   \* list and the instrument handed to the analysis
    imb,           \* one call of AdvancedMarketAnalyzer.find_imbalance: the
                   \* candle series and the zones returned
    dec            \* one call of TradingEngine._make_decision: what it read
                   \* besides the analysis in ana, and the action returned

orchVars == <<accounts, use_database, user_data, trades, exchange,
              active_tasks, tasks, sl_cooldowns, now, event, commands, limits>>
calVars == <<cal>>
anaVars == <<ana>>
selVars == <<sel>>
imbVars == <<imb>>
decVars == <<dec>>
vars == <<accounts, use_database, user_data, trades, exchange,
          active_tasks, tasks, sl_cooldowns, now, event, commands, limits, cal, ana, sel, imb, dec>>

(***************************************************************************)
(* Calibrator inputs: candle windows of n candles around MidPrice; the     *)
(* last RECENT_PERIOD candles have half-range b and are shifted by gap,    *)
(* the older ones have half-range a; closes alternate high / low.          *)
(***************************************************************************)
MaxHalfRange == 100
MaxGap == 1
UserMaxPositions == 1

Window(n, a, b, gap) ==
    [i \in 1..n |->
        LET recent == i > n - RECENT_PERIOD
            mid == MidPrice + (IF recent THEN gap * 50 ELSE 0)
            half == IF recent THEN b ELSE a
        IN  [h |-> mid + half, l |-> mid - half,
             c |-> IF i % 2 = 1 THEN mid + half ELSE mid - half]]

HalfRanges == {r \in {5, 10, 25, 50, 75, 100, 101, 150} : r <= MaxHalfRange}
WindowLens == {0, 14, 15, 49, 50, 51}
CalEntries == {-MidPrice, 0, MidPrice \div 2, MidPrice, MidPrice + 50}
Directions == {"long", "short"}

(***************************************************************************)
(* Market inputs of the orchestrator                                       *)
(***************************************************************************)
PriceLow == MidPrice - 600
PriceHigh == MidPrice + 600
\* a ticker result: 0 stands for "no price" (request failed or last = 0)
TickerPrices == {0, PriceLow, MidPrice, PriceHigh}
\* the price execute_trade reports: none, the recommendation's entry, or a
\* market price away from it
FillPrices == {0, MidPrice, PriceHigh}
\* candle windows the calibrator is given in a scan: quiet, normal, too short
OrchWindows == {"quiet", "normal", "short"}
OrchWindow(w) ==
    CASE w = "quiet" -> Window(MIN_OHLCV, 5, 5, 0)
      [] w = "normal" -> Window(MIN_OHLCV, 25, 25, 0)
      [] OTHER -> Window(MIN_OHLCV - 1, 25, 25, 0)
OrchEntries == {MidPrice}
\* the calibrator's answers for those windows, computed once
OrchLevels ==
    [w \in OrchWindows, e \in OrchEntries, d \in Directions |->
        calculate_scalping_sl_tp(e, d, OrchWindow(w))]

(***************************************************************************)
(* Tasks                                                                   *)
(***************************************************************************)
FreeSlot == [kind |-> "none", user |-> 0, pc |-> "done", cancel |-> FALSE,
             mon |-> 0, i |-> 0]
NewScan(u) == [kind |-> "scan", user |-> u, pc |-> "new", cancel |-> FALSE,
               mon |-> 0, i |-> 0]
NewMonitor(u) == [kind |-> "monitor", user |-> u, pc |-> "tick", cancel |-> FALSE,
                  mon |-> 0, i |-> 0]

FreeIds(tk) == {t \in TaskIds : t <= limits.tasks /\ tk[t].kind = "none"}
FirstFree(tk) == CHOOSE t \in FreeIds(tk) : \A o \in FreeIds(tk) : t <= o

Alive(t) == tasks[t].kind # "none"
ScanLoops(u) == {t \in TaskIds : tasks[t].kind = "scan" /\ tasks[t].user = u}
MonitorLoops(u) == {t \in TaskIds : tasks[t].kind = "monitor" /\ tasks[t].user = u}

\* task.cancel(): a request the task sees at its next await; a finished task
\* ignores it
Cancel(tk, t) ==
    IF t # 0 /\ tk[t].kind # "none" THEN [tk EXCEPT ![t].cancel = TRUE] ELSE tk

\* the task's coroutine has returned or raised: the slot is free again and
\* handles that other tasks hold on it refer to a finished task
Finish(tk, t) ==
    [o \in TaskIds |->
        IF o = t THEN FreeSlot
        ELSE IF tk[o].mon = t THEN [tk[o] EXCEPT !.mon = 0]
        ELSE tk[o]]

\* variant: the cleanup empties the registry
FinallyUnregisterAll(at, u) == [x \in Users |-> 0]

\* finally: if user_id in self.active_tasks: del self.active_tasks[user_id]
FinallyUnregister(at, u) == [at EXCEPT ![u] = 0]

\* what a step announces: an order with its notification ("open"), a monitor
\* pass ("monitor") with the positions it closed and the symbols the ticker
\* quoted; blind: the order went out although the position list was unreadable
\* ("error": the scan loop caught and printed an exception of one instrument;
\* "skip": the call returned without an order, why names the message it
\* printed; price: the entry price the call resolved; "blackout", "cycle",
\* "auto_stop": what the top of a scan cycle decided, with the UTC hour and
\* the weekday its time check read; atr_pct: the ATR percentage the
\* calibrator reported in the pass of an announced order, None = it reported
\* nothing)
NoEvent == [kind |-> "none", user |-> 0, symbol |-> "", closes |-> {},
            quoted |-> {}, blind |-> FALSE, price |-> 0, why |-> "",
            hour |-> None, weekday |-> None, atr_pct |-> None]

(***************************************************************************)
(* Position store: UserDataManager / StatisticsManager / Database          *)
(***************************************************************************)
IsOpenRow(r, u, s) == r.user = u /\ r.symbol = s /\ r.status = "open"
OpenIdx(tr, u) == {k \in 1..Len(tr) : tr[k].user = u /\ tr[k].status = "open"}
OpenIdxFor(tr, u, s) == {k \in 1..Len(tr) : IsOpenRow(tr[k], u, s)}

\* what the monitor is handed for a stored row: the database path renames
\* entry_price to entry and entry_time to timestamp and carries no
\* 'entry_time' key; the JSON path returns the stored dictionary itself
get_demo_positions(db, row) ==
    IF db THEN [row EXCEPT !.entry_time = None] ELSE row

\* UserDataManager.save_demo_position: an open row of the same symbol is
\* updated in place, otherwise a new open row is appended
save_demo_position(db, tr, u, pos) ==
    LET ex == OpenIdxFor(tr, u, pos.symbol)
    IN  IF ex # {}
        THEN LET k == CHOOSE x \in ex : \A y \in ex : x <= y
             IN  IF db
                 THEN [tr EXCEPT ![k].amount = pos.amount,
                                 ![k].entry = pos.entry,
                                 ![k].stop_loss = pos.stop_loss,
                                 ![k].take_profit = pos.take_profit]
                 ELSE [tr EXCEPT ![k] = pos]
        ELSE Append(tr, pos)

\* realized PnL of StatisticsManager.close_demo_trade
RealizedPnl(row, close_price) ==
    LET entry == IF row.entry = 0 THEN close_price ELSE row.entry
    IN  IF row.direction = "long"
        THEN ((close_price - entry) * row.amount) \div AmountUnit
        ELSE ((entry - close_price) * row.amount) \div AmountUnit

\* variant: the search for the trade to close does not look at the status
close_any_demo_trade(st, u, s, close_price, reason, t) ==
    LET ex == {k \in 1..Len(st.trades) :
                  st.trades[k].user = u /\ st.trades[k].symbol = s}
    IN  IF ex = {} THEN st
        ELSE LET k == CHOOSE x \in ex : \A y \in ex : x >= y
                 pnl == RealizedPnl(st.trades[k], close_price)
             IN  [st EXCEPT !.trades[k].status = "closed",
                            !.trades[k].close_price = close_price,
                            !.trades[k].close_reason = reason,
                            !.trades[k].pnl = pnl,
                            !.balance = st.balance + pnl]

\* StatisticsManager.close_demo_trade + UserDataManager.update_demo_position +
\* update_demo_balance, on the store st = [trades, balance]
close_demo_trade(st, u, s, close_price, reason, t) ==
    LET ex == OpenIdxFor(st.trades, u, s)
    IN  IF ex = {} THEN st
        ELSE LET k == CHOOSE x \in ex : \A y \in ex : x >= y
                 pnl == RealizedPnl(st.trades[k], close_price)
             IN  [st EXCEPT !.trades[k].status = "closed",
                            !.trades[k].close_price = close_price,
                            !.trades[k].close_reason = reason,
                            !.trades[k].pnl = pnl,
                            !.balance = st.balance + pnl]

(***************************************************************************)
(* Position monitor: AutoTradingManager._monitor_positions (demo branch)   *)
(***************************************************************************)
\* the close reason one check of one position arrives at, "" = stays open.
\* row is the dictionary handed to the monitor, price the ticker's last price
CloseReason(row, price, t) ==
    LET has_time == row.entry_time # None
        holding == IF has_time THEN t - row.entry_time ELSE 0
        force == has_time /\ holding >= FORCE_CLOSE_MINUTES
        soft == has_time /\ ~force /\ holding >= MAX_HOLDING_MINUTES
        should_close_time == force \/ soft
        level == price * LevelScale
        has_sl == row.stop_loss # None /\ row.stop_loss # 0
        has_tp == row.take_profit # None /\ row.take_profit # 0
        sl_hit == IF row.direction = "long"
                  THEN has_sl /\ level <= row.stop_loss
                  ELSE has_sl /\ level >= row.stop_loss
        tp_hit == /\ ~sl_hit
                  /\ IF row.direction = "long"
                     THEN has_tp /\ level >= row.take_profit
                     ELSE has_tp /\ level <= row.take_profit
        should_close == sl_hit \/ tp_hit
    IN  IF should_close_time /\ holding >= FORCE_CLOSE_MINUTES THEN "force_time"
        ELSE IF should_close_time /\ ~should_close THEN "recommended_time"
        ELSE IF sl_hit THEN "Stop Loss"
        ELSE IF tp_hit THEN "Take Profit"
        ELSE ""

\* variant: every close starts the cooldown
CooldownAfterAnyClose(cds, u, s, reason, t) == [cds EXCEPT ![<<u, s>>] = t]

\* if "Stop Loss" in close_reason: self.sl_cooldowns[f"{user_id}_{symbol}"] = time.time()
CooldownAfterClose(cds, u, s, reason, t) ==
    IF reason = "Stop Loss" THEN [cds EXCEPT ![<<u, s>>] = t] ELSE cds

\* the rows a monitor pass skips before asking for a price
MonitorSkips(row) ==
    \/ row.entry = 0 \/ row.entry = None
    \/ /\ (row.stop_loss = None \/ row.stop_loss = 0)
       /\ (row.take_profit = None \/ row.take_profit = 0)

\* for trade in open_trades: ... over the rows ks of the snapshot snap, with
\* the ticker answering px[symbol]; st = [trades, balance, cooldowns, closes]
RECURSIVE MonitorRows(_, _, _, _, _, _, _)
MonitorRows(db, st, snap, u, ks, px, t) ==
    IF ks = {} THEN st
    ELSE LET k == CHOOSE x \in ks : \A y \in ks : x <= y
             row == get_demo_positions(db, snap[k])
             price == px[row.symbol]
             reason == CloseReason(row, price, t)
             rest == ks \ {k}
         IN  IF MonitorSkips(row) \/ price = 0 \/ reason = ""
             THEN MonitorRows(db, st, snap, u, rest, px, t)
             ELSE LET closed == close_demo_trade(
                                   [trades |-> st.trades, balance |-> st.balance],
                                   u, row.symbol, price, reason, t)
                      cd == CooldownAfterClose(st.cooldowns, u, row.symbol, reason, t)
                  IN  MonitorRows(db,
                          [trades |-> closed.trades, balance |-> closed.balance,
                           cooldowns |-> cd,
                           closes |-> st.closes \cup
                               {[symbol |-> row.symbol, reason |-> reason]}],
                          snap, u, rest, px, t)

_monitor_positions(db, tr, bal, cds, u, px, t) ==
    MonitorRows(db, [trades |-> tr, balance |-> bal, cooldowns |-> cds, closes |-> {}],
                tr, u, OpenIdx(tr, u), px, t)

(***************************************************************************)
(* Initial state: the managers as constructed, user records at defaults    *)
(* except for the mode and for a demo balance left by earlier trading      *)
(***************************************************************************)
\* the balance at which the drawdown equals the limit, and the demo balances
\* an account starts a behaviour with: untouched, at the limit, beyond it
BalanceAtLimit == INITIAL_BALANCE - (INITIAL_BALANCE \div 100) * MAX_DRAWDOWN_PERCENT
InitBalances == {INITIAL_BALANCE, BalanceAtLimit, BalanceAtLimit - POSITION_VALUE}

IdleCal == [pc |-> "idle", entry |-> 0, direction |-> "long",
            n |-> 0, a |-> 0, b |-> 0, gap |-> 0, result |-> NullLevels("")]

IdleAna == [pc |-> "idle", strength |-> 0, sources |-> {}, signals |-> {},
            final_signal |-> "neutral", probability |-> 0,
            cancellation_reason |-> "", count |-> 0]

IdleSel == [pc |-> "idle", cycle_count |-> 0, stored |-> << >>,
            pairs |-> << >>, i |-> 0, symbol |-> ""]

IdleImb == [pc |-> "idle", ohlcv |-> << >>, result |-> << >>]

IdleDec == [pc |-> "idle", of_signal |-> "neutral", of_strength |-> 10,
            has_liquidity_sweep |-> FALSE, has_divergence |-> FALSE,
            structure |-> {}, total_signals |-> 0, rsi_signal |-> "neutral",
            macd_signal |-> "neutral", low_volume |-> FALSE,
            action |-> "", probability |-> 0,
            min_probability_strong |-> 0, min_probability_normal |-> 0]

InitOrchWith(accts, lim, max_positions) ==
    /\ accounts = accts
    /\ limits = lim
    /\ commands = 0
    /\ use_database \in BOOLEAN
    /\ \E demo \in BOOLEAN, bal \in InitBalances :
          /\ ~demo => use_database
          /\ user_data = [u \in Users |->
                [auto_trading_enabled |-> FALSE,
                 is_demo_mode |-> demo,
                 max_open_positions |-> max_positions,
                 demo_balance |-> IF u \in accts /\ demo THEN bal
                                  ELSE INITIAL_BALANCE]]
          /\ exchange = [u \in Users |->
                [positions |-> {},
                 equity |-> IF u \in accts /\ ~demo THEN bal
                            ELSE INITIAL_BALANCE]]
    /\ trades = << >>
    /\ active_tasks = [u \in Users |-> 0]
    /\ tasks = [t \in TaskIds |-> FreeSlot]
    /\ sl_cooldowns = [k \in Users \X Symbols |-> None]
    /\ now = 0
    /\ event = NoEvent

\* an account with the default settings
InitOrch(accts, lim) == InitOrchWith(accts, lim, MAX_OPEN_POSITIONS)

Limits(c, r, m, ds, cf) ==
    [commands |-> c, trades |-> r, time |-> m, directions |-> ds,
     candles_fail |-> cf, tasks |-> MaxTasks, prices |-> TickerPrices,
     windows |-> OrchWindows, fills |-> {0, MidPrice}]

\* a trading session
Init ==
    /\ InitOrch({1}, Limits(MaxCommands, MaxTrades, MaxTime, Directions, TRUE))
    /\ cal = IdleCal
    /\ ana = IdleAna
    /\ sel = IdleSel
    /\ imb = IdleImb
    /\ dec = IdleDec

\* a session of an account whose owner set "max. positions" to one
InitLimit ==
    /\ InitOrchWith({1}, Limits(MaxCommands, CooldownTrades, LoopTime, {"long"}, FALSE),
                    UserMaxPositions)
    /\ cal = IdleCal
    /\ ana = IdleAna
    /\ sel = IdleSel
    /\ imb = IdleImb
    /\ dec = IdleDec

\* two accounts that trade side by side
InitTwo ==
    /\ InitOrch(Users, [Limits(TwoCommands, CooldownTrades, LoopTime, {"long"}, FALSE)
                            EXCEPT !.tasks = TwoTasks, !.prices = {PriceLow},
                                   !.windows = {"normal"}])
    /\ use_database
    /\ \A u \in Users : user_data[u].demo_balance # BalanceAtLimit
    /\ \A u \in Users : exchange[u].equity = INITIAL_BALANCE
    /\ cal = IdleCal
    /\ ana = IdleAna
    /\ sel = IdleSel
    /\ imb = IdleImb
    /\ dec = IdleDec

\* the user toggling again and again
InitLoops ==
    /\ InitOrch({1}, Limits(LoopCommands, MaxTrades, LoopTime, {"long"}, TRUE))
    /\ cal = IdleCal
    /\ ana = IdleAna
    /\ sel = IdleSel
    /\ imb = IdleImb
    /\ dec = IdleDec

\* a session in a rising market that may have left the recommended entry by
\* the time the order is filled
InitFill ==
    /\ InitOrch({1}, [Limits(MaxCommands, MaxTrades, LoopTime, {"long"}, FALSE)
                          EXCEPT !.fills = FillPrices])
    /\ cal = IdleCal
    /\ ana = IdleAna
    /\ sel = IdleSel
    /\ imb = IdleImb
    /\ dec = IdleDec

\* a session long enough for a position to be closed and opened again, in a
\* rising market and with candles always served
InitCooldown ==
    /\ InitOrch({1}, Limits(MaxCommands, CooldownTrades, MaxTime, {"long"}, FALSE))
    /\ user_data[1].demo_balance # BalanceAtLimit
    /\ cal = IdleCal
    /\ ana = IdleAna
    /\ sel = IdleSel
    /\ imb = IdleImb
    /\ dec = IdleDec

\* the user toggling again and again in a rising market with candles always
\* served, on the database store, the balance untouched or beyond the limit
InitStop ==
    /\ InitOrch({1}, Limits(LoopCommands, MaxTrades, LoopTime, {"long"}, FALSE))
    /\ user_data[1].demo_balance # BalanceAtLimit
    /\ use_database
    /\ cal = IdleCal
    /\ ana = IdleAna
    /\ sel = IdleSel
    /\ imb = IdleImb
    /\ dec = IdleDec

(***************************************************************************)
(* User command: toggle_auto_trading (bot/handlers/trading.py)             *)
(***************************************************************************)
\* AutoTradingManager.start_auto_trading on (active_tasks, tasks)
start_auto_trading(at, tk, u) ==
    IF at[u] # 0 THEN [active_tasks |-> at, tasks |-> tk, started |-> FALSE]
    ELSE LET t == FirstFree(tk)
         IN  [active_tasks |-> [at EXCEPT ![u] = t],
              tasks |-> [tk EXCEPT ![t] = NewScan(u)],
              started |-> TRUE]

\* AutoTradingManager.stop_auto_trading on (active_tasks, tasks)
stop_auto_trading(at, tk, u) ==
    IF at[u] = 0 THEN [active_tasks |-> at, tasks |-> tk, started |-> FALSE]
    ELSE [active_tasks |-> [at EXCEPT ![u] = 0],
          tasks |-> Cancel(tk, at[u]),
          started |-> FALSE]

\* the handler runs without suspending from its read of the flag to the
\* return of start/stop (the API keys are present)
toggle_auto_trading(u) ==
    /\ u \in accounts
    /\ LET new_status == ~user_data[u].auto_trading_enabled
           r == IF new_status
                THEN start_auto_trading(active_tasks, tasks, u)
                ELSE stop_auto_trading(active_tasks, tasks, u)
       IN  /\ (new_status /\ active_tasks[u] = 0) => FreeIds(tasks) # {}
           /\ user_data' = [user_data EXCEPT ![u].auto_trading_enabled = new_status]
           /\ active_tasks' = r.active_tasks
           /\ tasks' = r.tasks
           \* the reply to the user: auto trading enabled / disabled
           /\ event' = [NoEvent EXCEPT
                           !.kind = IF new_status THEN "enabled" ELSE "disabled",
                           !.user = u]
    /\ commands < limits.commands
    /\ commands' = commands + 1
    /\ UNCHANGED <<accounts, use_database, trades, exchange, sl_cooldowns, now,
                   limits, cal, ana, sel, imb, dec>>

(***************************************************************************)
(* Scan loop: AutoTradingManager._auto_trading_loop                        *)
(***************************************************************************)
\* a task cancelled before its first step never runs its coroutine
TaskCancelledBeforeStart(t) ==
    /\ tasks[t].kind = "scan" /\ tasks[t].pc = "new" /\ tasks[t].cancel
    /\ tasks' = Finish(tasks, t)
    /\ event' = NoEvent
    /\ UNCHANGED <<accounts, use_database, user_data, trades, exchange,
                   active_tasks, sl_cooldowns, now, commands, limits, cal, ana, sel, imb, dec>>

\* first step: monitoring_task = asyncio.create_task(self._monitoring_loop(user_id))
ScanStart(t) ==
    /\ tasks[t].kind = "scan" /\ tasks[t].pc = "new" /\ ~tasks[t].cancel
    /\ FreeIds(tasks) # {}
    /\ LET m == FirstFree(tasks)
       IN  tasks' = [tasks EXCEPT ![m] = NewMonitor(tasks[t].user),
                                  ![t].mon = m, ![t].pc = "check"]
    \* the start-up line the loop logs for the user
    /\ event' = [NoEvent EXCEPT !.kind = "loop_started", !.user = tasks[t].user]
    /\ UNCHANGED <<accounts, use_database, user_data, trades, exchange,
                   active_tasks, sl_cooldowns, now, commands, limits, cal, ana, sel, imb, dec>>

\* drawdown = (initial_balance - current_balance) / initial_balance * 100
DrawdownExceeded(balance) ==
    (INITIAL_BALANCE - balance) * 100 > MAX_DRAWDOWN_PERCENT * INITIAL_BALANCE

\* what datetime.now(timezone.utc) can answer: a blocked and a free hour, a
\* blocked and a free weekday (0 = Monday)
Hours == {5, 6}
Weekdays == {0, 1}
SCALPING_BLOCKED_HOURS == {6, 11}
SCALPING_BLOCKED_WEEKDAYS == {0}

\* variant: only the hour is looked at
InBlackoutHoursOnly(hour, weekday) == hour \in SCALPING_BLOCKED_HOURS

\* if current_hour in SCALPING_BLOCKED_HOURS or current_weekday in SCALPING_BLOCKED_WEEKDAYS
InBlackout(hour, weekday) ==
    hour \in SCALPING_BLOCKED_HOURS \/ weekday \in SCALPING_BLOCKED_WEEKDAYS

\* top of the while loop: the enabled flag, the blackout window, the
\* drawdown circuit breaker, then the pair list
ScanCheck(t) ==
    /\ tasks[t].kind = "scan" /\ tasks[t].pc = "check" /\ ~tasks[t].cancel
    /\ LET u == tasks[t].user
           data == user_data[u]
       IN  \/ \* if not data.get('auto_trading_enabled'): break  -> finally
              /\ ~data.auto_trading_enabled
              /\ tasks' = Finish(tasks, t)
              /\ active_tasks' = FinallyUnregister(active_tasks, u)
              /\ event' = NoEvent
              /\ UNCHANGED user_data
           \/ \* blocked hour or weekday: sleep(900); continue
              /\ data.auto_trading_enabled
              /\ \E hour \in Hours, weekday \in Weekdays :
                    /\ InBlackout(hour, weekday)
                    /\ event' = [NoEvent EXCEPT !.kind = "blackout", !.user = u,
                                                !.hour = hour, !.weekday = weekday]
              /\ UNCHANGED <<tasks, active_tasks, user_data>>
           \/ \* drawdown above the maximum: disable, notify (await), then break
              /\ data.auto_trading_enabled
              /\ data.is_demo_mode /\ DrawdownExceeded(data.demo_balance)
              /\ user_data' = [user_data EXCEPT ![u].auto_trading_enabled = FALSE]
              /\ tasks' = [tasks EXCEPT ![t].pc = "halt"]
              /\ \E hour \in Hours, weekday \in Weekdays :
                    /\ ~InBlackout(hour, weekday)
                    /\ event' = [NoEvent EXCEPT !.kind = "auto_stop", !.user = u,
                                                !.hour = hour, !.weekday = weekday]
              /\ UNCHANGED active_tasks
           \/ \* go on to the instruments of this cycle
              /\ data.auto_trading_enabled
              /\ ~(data.is_demo_mode /\ DrawdownExceeded(data.demo_balance))
              /\ tasks' = [tasks EXCEPT ![t].pc = "pair", ![t].i = 1]
              /\ \E hour \in Hours, weekday \in Weekdays :
                    /\ ~InBlackout(hour, weekday)
                    /\ event' = [NoEvent EXCEPT !.kind = "cycle", !.user = u,
                                                !.hour = hour, !.weekday = weekday]
              /\ UNCHANGED <<active_tasks, user_data>>
    /\ UNCHANGED <<accounts, use_database, trades, exchange, sl_cooldowns, now, commands, limits, cal, ana, sel, imb, dec>>

\* after the auto-stop notification: break -> finally
ScanHalt(t) ==
    /\ tasks[t].kind = "scan" /\ tasks[t].pc = "halt" /\ ~tasks[t].cancel
    /\ tasks' = Finish(tasks, t)
    /\ active_tasks' = FinallyUnregister(active_tasks, tasks[t].user)
    /\ event' = NoEvent
    /\ UNCHANGED <<accounts, use_database, user_data, trades, exchange,
                   sl_cooldowns, now, commands, limits, cal, ana, sel, imb, dec>>

\* CancelledError at an await of the loop: monitoring_task.cancel(); raise;
\* finally
ScanCancelled(t) ==
    /\ tasks[t].kind = "scan" /\ tasks[t].pc # "new" /\ tasks[t].cancel
    /\ tasks' = Finish(Cancel(tasks, tasks[t].mon), t)
    /\ active_tasks' = FinallyUnregister(active_tasks, tasks[t].user)
    /\ event' = NoEvent
    /\ UNCHANGED <<accounts, use_database, user_data, trades, exchange,
                   sl_cooldowns, now, commands, limits, cal, ana, sel, imb, dec>>

(***************************************************************************)
(* One instrument of a scan: AutoTradingManager._analyze_and_trade         *)
(***************************************************************************)
AnalysisOutcomes == {"error", "skip", "open_long", "open_short"}

\* recommendation levels of the analysis (MarketAnalyzer): entry is 0.999 /
\* 1.001 of the current price, the stop 1.5 % and the target 3 % away from the
\* current price
RecLevel(entry, entry_permille, level_permille) ==
    ((entry * level_permille * (LevelScale \div PctUnit)) \div entry_permille)
        * PctUnit
RecommendationLevels(entry, direction) ==
    IF direction = "long"
    THEN [stop_loss |-> RecLevel(entry, 999, 985),
          take_profit |-> RecLevel(entry, 999, 1030)]
    ELSE [stop_loss |-> RecLevel(entry, 1001, 1015),
          take_profit |-> RecLevel(entry, 1001, 970)]

\* variant: the elapsed time is compared in seconds against the minutes
InCooldownSeconds(cds, u, s, t) ==
    /\ cds[<<u, s>>] # None
    /\ (t - cds[<<u, s>>]) * 60 < SL_COOLDOWN_MINUTES

\* the cooldown check at the head of _analyze_and_trade
InCooldown(cds, u, s, t) ==
    /\ cds[<<u, s>>] # None
    /\ t - cds[<<u, s>>] < SL_COOLDOWN_MINUTES

\* variant: the row is written without an entry price
TradeDataWithoutEntry(u, s, direction, amount, entry, sl, tp, t) ==
    [user |-> u, symbol |-> s, direction |-> direction, amount |-> amount,
     entry |-> 0, stop_loss |-> sl, take_profit |-> tp, status |-> "open",
     entry_time |-> t, close_price |-> None, close_reason |-> "", pnl |-> 0]

\* the trade_data dictionary handed to StatisticsManager.add_demo_trade
TradeData(u, s, direction, amount, entry, sl, tp, t) ==
    [user |-> u, symbol |-> s, direction |-> direction, amount |-> amount,
     entry |-> entry, stop_loss |-> sl, take_profit |-> tp, status |-> "open",
     entry_time |-> t, close_price |-> None, close_reason |-> "", pnl |-> 0]

\* what one call decides, given the answers of the exchange and the analysis:
\*   outcome     decision of TradingEngine.analyze_and_trade ("error": it failed)
\*   entry       the recommendation's entry / current price, 0 = no price
\*   w           the candle window the calibrator reads
\*   cal_ok      the calibrator call returned (FALSE: it raised)
\*   has_rec     the analysis carries recommendation levels
\*   check_ok    live mode: get_positions returned (FALSE: it raised)
\*   order_ok    live mode: the market order was accepted
\*   fill        price reported by execute_trade, 0 = none reported
\* the result is "raise", "return" or "open" with the position to record
analyze_and_trade(u, s, demo, cds, held, max_positions, t, outcome, entry, w, cal_ok, has_rec, check_ok, order_ok, fill) ==
    LET direction == IF outcome = "open_long" THEN "long" ELSE "short"
        levels == IF entry \in OrchEntries THEN OrchLevels[w, entry, direction]
                  ELSE NullLevels("entry<=0")
        rec == RecommendationLevels(entry, direction)
        calibrated == cal_ok /\ levels.stop_loss # None
        stop_loss == IF calibrated THEN levels.stop_loss
                     ELSE IF has_rec THEN rec.stop_loss ELSE None
        take_profit == IF calibrated THEN levels.take_profit
                       ELSE IF has_rec THEN rec.take_profit ELSE None
        atr_pct == IF levels.has_meta THEN levels.atr_pct ELSE 0
        amount == IF entry > 0 THEN (POSITION_VALUE * AmountUnit) \div entry ELSE 0
        entry_price_actual == IF fill # 0 THEN fill ELSE entry
        ret(why) == [res |-> "return", why |-> why, atr_pct |-> None,
                     pos |-> TradeData(u, s, direction, 0, 0, None, None, t)]
    IN  IF InCooldown(cds, u, s, t) THEN ret("cooldown")
        ELSE IF outcome = "error" THEN [ret("error") EXCEPT !.res = "raise"]
        ELSE IF outcome = "skip" THEN ret("decision")
        \* live mode only: the position limit and the same-symbol check
        ELSE IF ~demo /\ check_ok /\ Cardinality(held) >= max_positions
        THEN ret("max_positions")
        ELSE IF ~demo /\ check_ok /\ s \in held THEN ret("has_position")
        \* ATR filter
        ELSE IF cal_ok /\ atr_pct < ATR_MIN_PERCENT THEN ret("atr")
        ELSE IF entry <= 0 THEN ret("entry")
        \* the parameter log formats stop_loss and take_profit as numbers
        ELSE IF stop_loss = None \/ take_profit = None THEN ret("levels")
        ELSE IF amount < 1 THEN ret("amount")
        ELSE IF ~demo /\ ~order_ok THEN ret("order")
        ELSE IF entry_price_actual = 0 THEN ret("fill")
        ELSE [res |-> "open", why |-> "", atr_pct |-> IF cal_ok THEN atr_pct ELSE None,
              pos |-> TradeData(u, s, direction, amount, entry_price_actual,
                                stop_loss, take_profit, t)]

\* the answers one call can get; answers that differ only in a value the
\* call never reads are listed once
ScanAnswers ==
    {a \in [outcome : AnalysisOutcomes, entry : {0, MidPrice}, w : OrchWindows,
            cal_ok : BOOLEAN, has_rec : BOOLEAN, check_ok : BOOLEAN,
            order_ok : BOOLEAN, fill : FillPrices] :
        LET opening == a.outcome \in {"open_long", "open_short"} /\ a.entry > 0
            ordering == opening /\ (a.w = "normal" \/ ~a.cal_ok)
        IN  /\ ~(a.outcome \in {"open_long", "open_short"}) => a.entry = 0
            /\ ~opening => (a.w = "normal" /\ a.cal_ok /\ a.check_ok)
            /\ a.cal_ok => a.has_rec
            /\ ~a.cal_ok => a.w = "normal"
            /\ ~ordering => (a.order_ok /\ a.fill = 0)}

\* variant: an exception of one instrument ends the cycle
AfterPairAbortsOnRaise(task, res) ==
    IF res # "raise" /\ task.i < Len(DEFAULT_PAIRS)
    THEN [task EXCEPT !.pc = "pair", !.i = task.i + 1]
    ELSE [task EXCEPT !.pc = "check", !.i = 0]

\* where the loop stands after one instrument: the try/except around the call
\* swallows every Exception (the handler only prints, its own send_message is
\* guarded), so the next instrument follows whatever the call did
AfterPair(task, res) ==
    IF task.i < Len(DEFAULT_PAIRS)
    THEN [task EXCEPT !.pc = "pair", !.i = task.i + 1]
    ELSE [task EXCEPT !.pc = "check", !.i = 0]

\* for symbol in pairs: await self._analyze_and_trade(...); sleep(2); after the
\* last instrument sleep(180) and back to the top of the loop; an exception is
\* printed ("error") and the loop goes on
ScanPair(t) ==
    /\ tasks[t].kind = "scan" /\ tasks[t].pc = "pair" /\ ~tasks[t].cancel
    /\ LET u == tasks[t].user
           s == DEFAULT_PAIRS[tasks[t].i]
           demo == user_data[u].is_demo_mode
       IN  \E a \in ScanAnswers :
             LET r == analyze_and_trade(u, s, demo, sl_cooldowns,
                                        exchange[u].positions,
                                        user_data[u].max_open_positions, now,
                                        a.outcome, a.entry, a.w, a.cal_ok, a.has_rec,
                                        a.check_ok, a.order_ok, a.fill)
                 opens == r.res = "open"
             IN  /\ demo => (a.check_ok /\ a.order_ok)
                 /\ a.outcome = "open_long" => "long" \in limits.directions
                 /\ a.outcome = "open_short" => "short" \in limits.directions
                 /\ ~a.cal_ok => limits.candles_fail
                 /\ a.w \in limits.windows
                 /\ a.fill \in limits.fills
                 /\ (opens /\ demo /\ OpenIdxFor(trades, u, s) = {})
                        => Len(trades) < limits.trades
                 /\ trades' = IF opens /\ demo
                              THEN save_demo_position(use_database, trades, u, r.pos)
                              ELSE trades
                 /\ exchange' = IF opens /\ ~demo
                                THEN [exchange EXCEPT ![u].positions = @ \cup {s}]
                                ELSE exchange
                 /\ event' = IF opens
                              THEN [NoEvent EXCEPT !.kind = "open", !.user = u,
                                                   !.symbol = s,
                                                   !.price = r.pos.entry,
                                                   !.atr_pct = r.atr_pct,
                                                   !.blind = ~demo /\ ~a.check_ok]
                              ELSE IF r.res = "raise"
                              THEN [NoEvent EXCEPT !.kind = "error", !.user = u,
                                                   !.symbol = s]
                              ELSE [NoEvent EXCEPT !.kind = "skip", !.user = u,
                                                   !.symbol = s, !.why = r.why,
                                                   !.price = a.entry]
                 /\ tasks' = [tasks EXCEPT ![t] = AfterPair(tasks[t], r.res)]
    /\ UNCHANGED <<accounts, use_database, user_data, active_tasks,
                   sl_cooldowns, now, commands, limits, cal, ana, sel, imb, dec>>

(***************************************************************************)
(* Monitor loop: AutoTradingManager._monitoring_loop                       *)
(***************************************************************************)
\* the ticker's answers to one pass: a price per symbol it is asked about
TickerAnswers(tr, u) ==
    {px \in [Symbols -> TickerPrices] :
        \A s \in Symbols : IF OpenIdxFor(tr, u, s) = {} THEN px[s] = MidPrice
                                                        ELSE px[s] \in limits.prices}

\* variant: the monitor loop does not look at the flag
monitor_ignores_flag(data) == TRUE

\* if not data.get('auto_trading_enabled', False): break
monitor_enabled(data) == data.auto_trading_enabled

\* one pass of the while loop: the enabled flag, then _monitor_positions,
\* then sleep(30)
MonitorTick(t) ==
    /\ tasks[t].kind = "monitor" /\ ~tasks[t].cancel
    /\ LET u == tasks[t].user
       IN  IF ~monitor_enabled(user_data[u])
           THEN /\ tasks' = Finish(tasks, t)
                /\ event' = NoEvent
                /\ UNCHANGED <<user_data, trades, sl_cooldowns>>
           ELSE IF ~user_data[u].is_demo_mode
           THEN \* live mode: the exchange's positions are only listed
                /\ event' = NoEvent
                /\ UNCHANGED <<tasks, user_data, trades, sl_cooldowns>>
           ELSE \E px \in TickerAnswers(trades, u) :
                  LET r == _monitor_positions(use_database, trades,
                                              user_data[u].demo_balance,
                                              sl_cooldowns, u, px, now)
                  IN  /\ trades' = r.trades
                      /\ user_data' = [user_data EXCEPT ![u].demo_balance = r.balance]
                      /\ sl_cooldowns' = r.cooldowns
                      /\ event' = [NoEvent EXCEPT
                                      !.kind = "monitor", !.user = u,
                                      !.closes = r.closes,
                                      !.quoted = {s \in Symbols :
                                          /\ OpenIdxFor(trades, u, s) # {}
                                          /\ px[s] # 0}]
                      /\ UNCHANGED tasks
    /\ UNCHANGED <<accounts, use_database, exchange, active_tasks, now, commands, limits, cal, ana, sel, imb, dec>>

\* variant: a cancelled monitor liquidates the account's open demo positions
\* at the last price before it leaves
MonitorCancelledLiquidates(t) ==
    /\ tasks[t].kind = "monitor" /\ tasks[t].cancel
    /\ tasks' = Finish(tasks, t)
    /\ trades' = [k \in 1..Len(trades) |->
                    IF trades[k].user = tasks[t].user /\ trades[k].status = "open"
                    THEN [trades[k] EXCEPT !.status = "closed",
                                           !.close_price = MidPrice,
                                           !.close_reason = "shutdown"]
                    ELSE trades[k]]
    /\ event' = NoEvent
    /\ UNCHANGED <<accounts, use_database, user_data, exchange,
                   active_tasks, sl_cooldowns, now, commands, limits, cal, ana, sel, imb, dec>>

\* except asyncio.CancelledError: break
MonitorCancelled(t) ==
    /\ tasks[t].kind = "monitor" /\ tasks[t].cancel
    /\ tasks' = Finish(tasks, t)
    /\ event' = NoEvent
    /\ UNCHANGED <<accounts, use_database, user_data, trades, exchange,
                   active_tasks, sl_cooldowns, now, commands, limits, cal, ana, sel, imb, dec>>

(***************************************************************************)
(* Environment                                                             *)
(***************************************************************************)
\* the minutes at which a behaviour is observed: the start, and the minutes
\* at which a time rule changes its answer for something that happened at the
\* start
ClockInstants ==
    {0, MAX_HOLDING_MINUTES, FORCE_CLOSE_MINUTES, SL_COOLDOWN_MINUTES,
     SL_COOLDOWN_MINUTES + 1}
LaterInstants(t, horizon) == {m \in ClockInstants : m > t /\ m <= horizon}
NextInstant(t, horizon) ==
    CHOOSE m \in LaterInstants(t, horizon) :
        \A o \in LaterInstants(t, horizon) : m <= o

\* time passes to the next instant; the clock is read only against the entry time of an open
\* position and against the stamp of a running cooldown, so minutes with
\* neither are not counted
Tick ==
    /\ LaterInstants(now, limits.time) # {}
    /\ \/ \E k \in 1..Len(trades) : trades[k].status = "open"
       \/ \E u \in Users, s \in Symbols : InCooldown(sl_cooldowns, u, s, now)
    /\ now' = NextInstant(now, limits.time)
    /\ event' = NoEvent
    /\ UNCHANGED <<accounts, use_database, user_data, trades, exchange,
                   active_tasks, tasks, sl_cooldowns, commands, limits, cal, ana, sel, imb, dec>>

\* the exchange closes a live position on its own stop or take-profit order
ExchangeClose(u, s) ==
    /\ s \in exchange[u].positions
    /\ exchange' = [exchange EXCEPT ![u].positions = @ \ {s}]
    /\ event' = NoEvent
    /\ UNCHANGED <<accounts, use_database, user_data, trades, active_tasks,
                   tasks, sl_cooldowns, now, commands, limits, cal, ana, sel, imb, dec>>

Next ==
    \/ \E u \in Users : toggle_auto_trading(u)
    \/ \E t \in TaskIds : TaskCancelledBeforeStart(t)
    \/ \E t \in TaskIds : ScanStart(t)
    \/ \E t \in TaskIds : ScanCheck(t)
    \/ \E t \in TaskIds : ScanHalt(t)
    \/ \E t \in TaskIds : ScanPair(t)
    \/ \E t \in TaskIds : ScanCancelled(t)
    \/ \E t \in TaskIds : MonitorTick(t)
    \/ \E t \in TaskIds : MonitorCancelled(t)
    \/ \E u \in Users, s \in Symbols : ExchangeClose(u, s)
    \/ Tick

Spec == Init /\ [][Next]_vars

SpecLimit == InitLimit /\ [][Next]_vars

SpecFill == InitFill /\ [][Next]_vars

SpecTwo == InitTwo /\ [][Next]_vars

SpecLoops == InitLoops /\ [][Next]_vars

SpecCooldown == InitCooldown /\ [][Next]_vars

\* every created task is scheduled by the event loop: each of its steps that
\* stays possible is eventually taken (sleeps and awaited calls return)
TaskStep(t) ==
    \/ TaskCancelledBeforeStart(t)
    \/ ScanStart(t)
    \/ ScanCheck(t)
    \/ ScanHalt(t)
    \/ ScanPair(t)
    \/ ScanCancelled(t)
    \/ MonitorTick(t)
    \/ MonitorCancelled(t)
SpecStop == InitStop /\ [][Next]_vars
FairSpecStop == SpecStop /\ \A t \in TaskIds : WF_vars(TaskStep(t))

(***************************************************************************)
(* The calibrator on its own: one call per behaviour                       *)
(***************************************************************************)
InitCal ==
    /\ \E n \in WindowLens, a \in HalfRanges, b \in HalfRanges, g \in 0..MaxGap,
          e \in CalEntries, d \in Directions :
           cal = [pc |-> "call", entry |-> e, direction |-> d,
                  n |-> n, a |-> a, b |-> b, gap |-> g,
                  result |-> NullLevels("")]
    /\ ana = IdleAna
    /\ sel = IdleSel
    /\ imb = IdleImb
    /\ dec = IdleDec
    /\ accounts = {}
    /\ use_database = TRUE
    /\ user_data = [u \in Users |-> [auto_trading_enabled |-> FALSE,
                                     is_demo_mode |-> TRUE,
                                     max_open_positions |-> MAX_OPEN_POSITIONS,
                                     demo_balance |-> INITIAL_BALANCE]]
    /\ trades = << >>
    /\ exchange = [u \in Users |-> [positions |-> {}, equity |-> INITIAL_BALANCE]]
    /\ active_tasks = [u \in Users |-> 0]
    /\ tasks = [t \in TaskIds |-> FreeSlot]
    /\ sl_cooldowns = [k \in Users \X Symbols |-> None]
    /\ now = 0
    /\ event = NoEvent
    /\ commands = 0
    /\ limits = Limits(0, 0, 0, {}, FALSE)

\* await trading_engine.calculate_scalping_sl_tp(symbol, entry, direction, ...)
Calibrate ==
    /\ cal.pc = "call"
    /\ cal' = [cal EXCEPT !.pc = "done",
                 !.result = calculate_scalping_sl_tp(
                     cal.entry, cal.direction,
                     Window(cal.n, cal.a, cal.b, cal.gap))]
    /\ UNCHANGED <<orchVars, ana, sel, imb, dec>>

NextCal == Calibrate

SpecCal == InitCal /\ [][NextCal]_vars

(***************************************************************************)
(* Risk calibrator claims (checked under SpecCal)                          *)
(***************************************************************************)
CalDone == cal.pc = "done"
CalNumeric == cal.result.stop_loss # None /\ cal.result.take_profit # None
CalEntryLevel == cal.entry * LevelScale

\* C8: every non-null result of calculate_scalping_sl_tp with entry > 0 has
\* its levels on the correct sides of entry: long => stop_loss < entry <
\* take_profit, short => take_profit < entry < stop_loss.
C8_LevelsStraddleEntry ==
    (CalDone /\ CalNumeric /\ cal.entry > 0) =>
        /\ cal.direction = "long" =>
              /\ cal.result.stop_loss < CalEntryLevel
              /\ CalEntryLevel < cal.result.take_profit
        /\ cal.direction = "short" =>
              /\ cal.result.take_profit < CalEntryLevel
              /\ CalEntryLevel < cal.result.stop_loss

C8_Witness ==
    /\ CalDone /\ CalNumeric /\ cal.direction = "short"
    /\ cal.result.take_profit < CalEntryLevel
    /\ cal.result.sl_pct > MinSlPct(cal.result.atr_pct)

\* C9 (as claimed): every non-null result has tp_pct / sl_pct >= 3.0 after
\* all minimum, stretch and hard-cap adjustments.
C9_RewardRiskAtLeastTarget ==
    (CalDone /\ CalNumeric) =>
        cal.result.tp_pct >= TARGET_RR * cal.result.sl_pct

\* C10: null levels with an explicit reason, never numbers, whenever
\* entry <= 0, fewer than 50 candles or fewer than 15 true-range samples
\* are available.
C10_InsufficientDataIsNull ==
    (CalDone /\ (\/ cal.entry <= 0
                 \/ cal.n < MIN_OHLCV
                 \/ cal.n < ATR_PERIOD + 1)) =>
        /\ cal.result.stop_loss = None
        /\ cal.result.take_profit = None
        /\ cal.result.reason \in {"entry<=0", "not_enough_ohlcv", "not_enough_tr"}

C10_Witness ==
    /\ CalDone /\ cal.entry > 0 /\ cal.n = MIN_OHLCV - 1
    /\ cal.result.stop_loss = None /\ cal.result.reason = "not_enough_ohlcv"

(***************************************************************************)
(* Orchestrator claims                                                     *)
(***************************************************************************)
Enabled(u) == user_data[u].auto_trading_enabled
Demo(u) == user_data[u].is_demo_mode

\* the position store of an account: the trade store of a demo account, the
\* exchange's position list of a live one
HasOpenPosition(u, s) ==
    IF Demo(u) THEN \E k \in 1..Len(trades) : IsOpenRow(trades[k], u, s)
    ELSE s \in exchange[u].positions

\* the equity the drawdown is measured on
CurrentEquity(u) == IF Demo(u) THEN user_data[u].demo_balance ELSE exchange[u].equity

\* C1 (as claimed): the scan loop never opens a position on (account, symbol)
\* - order placed or simulated, position recorded, open notification sent -
\* while the position store, when it can be read, already holds an open
\* position for that pair.
C1_NoOpenWhileOpen ==
    [][(event'.kind = "open" /\ ~event'.blind)
          => ~HasOpenPosition(event'.user, event'.symbol)]_vars

C3_ForceCloseOnTick ==
    [][event'.kind = "monitor" =>
          \A k \in 1..Len(trades) :
              (/\ trades[k].user = event'.user
               /\ trades[k].status = "open"
               /\ now - trades[k].entry_time >= 10
               /\ trades[k].symbol \in event'.quoted)
                  => trades'[k].status = "closed"]_vars

\* a step of scan loop t through the checks at the top of its cycle
ScanCheckStep(t) ==
    /\ tasks[t].kind = "scan" /\ tasks[t].pc = "check" /\ ~tasks[t].cancel
    /\ tasks'[t].pc # "check"

\* C4 (as claimed): at a scan-loop check of an enabled account, a drawdown
\* above 20 % of the 10,000 baseline switches the account off and ends the
\* loop on that check with no instrument analysed, a drawdown up to 20 % lets
\* the cycle go on; and no position is opened for an account that is off.
C4_DrawdownHalts ==
    [][/\ \A t \in TaskIds :
            (ScanCheckStep(t) /\ Enabled(tasks[t].user)) =>
                IF (1000000 - CurrentEquity(tasks[t].user)) * 100 > 20 * 1000000
                THEN /\ ~Enabled(tasks[t].user)'
                     /\ tasks'[t].pc \in {"halt", "done"}
                ELSE /\ Enabled(tasks[t].user)'
                     /\ tasks'[t].pc = "pair"
       /\ event'.kind = "open" => Enabled(event'.user)]_vars

\* a loop that runs and has not been asked to stop
Running(t) == tasks[t].kind # "none" /\ ~tasks[t].cancel
RunningScans(u) == {t \in ScanLoops(u) : Running(t)}
RunningMonitors(u) == {t \in MonitorLoops(u) : Running(t)}

\* C5 (as claimed): an enabled account has exactly one running scan loop and,
\* once that loop has taken its first step, exactly one running monitor loop;
\* never two monitor loops, never one loop without the other.
C5_OneScanOneMonitor ==
    \A u \in accounts :
        Enabled(u) =>
            /\ Cardinality(RunningScans(u)) = 1
            /\ Cardinality(RunningMonitors(u)) <= 1
            /\ \A t \in RunningScans(u) :
                  tasks[t].pc # "new" => Cardinality(RunningMonitors(u)) = 1

\* C6: once an account is disabled, its scan loop and its monitor loop both
\* eventually terminate (unless the account is enabled again first), no
\* cancellation stays pending for ever, and a task that has ended neither opens
\* nor closes a position: an opening or closing step belongs to a loop that
\* is still running after it.
NoLoops(u) == ScanLoops(u) = {} /\ MonitorLoops(u) = {}
C6_LoopsTerminateAfterDisable ==
    /\ \A u \in Users : (u \in accounts /\ ~Enabled(u)) ~> (Enabled(u) \/ NoLoops(u))
    /\ []<>(\A t \in TaskIds : ~tasks[t].cancel)
    /\ [][\A u \in Users :
             /\ (event'.kind = "open" /\ event'.user = u) => ScanLoops(u)' # {}
             /\ (event'.kind = "monitor" /\ event'.closes # {} /\ event'.user = u)
                   => MonitorLoops(u)' # {}
             /\ (NoLoops(u) /\ NoLoops(u)') =>
                    /\ \A k \in 1..Len(trades) :
                          trades[k].user = u => trades'[k] = trades[k]
                    /\ \A k \in 1..Len(trades') :
                          k > Len(trades) => trades'[k].user # u]_vars

\* disabled by the user's command, both loops gone
C6_Witness ==
    /\ ~Enabled(1) /\ commands >= 2 /\ NoLoops(1)
    /\ \E k \in 1..Len(trades) : trades[k].user = 1

\* C7: a stop (the command that disables, and the end of each cancelled
\* loop) leaves every position record and every exchange position as it
\* was; and whenever a monitor loop runs for an enabled demo account, each
\* open position of the account, whichever loop opened it, is one that
\* monitor can still close at its stop or target.
StopStep ==
    \/ \E u \in Users : Enabled(u) /\ ~Enabled(u)' /\ commands' # commands
    \/ \E t \in TaskIds : tasks[t].cancel /\ tasks'[t].kind = "none"
C7_StopKeepsPositions ==
    /\ [][StopStep => (trades' = trades /\ exchange' = exchange)]_vars
    /\ [](\A t \in TaskIds, k \in 1..Len(trades) :
            (/\ tasks[t].kind = "monitor" /\ ~tasks[t].cancel
             /\ trades[k].user = tasks[t].user /\ trades[k].status = "open"
             /\ Enabled(tasks[t].user) /\ Demo(tasks[t].user))
                => ENABLED (MonitorTick(t) /\ trades'[k].status = "closed"))

\* started again with a position that was open through the stop: the new
\* loop has just created its monitor, no other task is left, and that
\* monitor can close the position
C7_Witness ==
    /\ event.kind = "loop_started" /\ commands = 3
    /\ Cardinality({t \in TaskIds : Alive(t)}) = 2
    /\ \E t \in TaskIds, k \in 1..Len(trades) :
          /\ tasks[t].kind = "monitor" /\ ~tasks[t].cancel
          /\ trades[k].user = tasks[t].user /\ trades[k].status = "open"
          /\ ENABLED (MonitorTick(t) /\ trades'[k].status = "closed")

(***************************************************************************)
(* Signal scoring: MarketAnalyzer.analyze_market (confirmations,           *)
(* probability, final signal) and the filters TradingEngine.analyze_and_   *)
(* trade applies before the decision step.  Probabilities are exact        *)
(* multiples of 1 / ProbUnit of a percentage point.                        *)
(***************************************************************************)
ProbUnit == 18000
MIN_CONFIRMATIONS_REQUIRED == 3
TREND_PENALTY == 15
TREND_MIN_PROBABILITY == 50

\* the entries analyze_market appends to confirmations: candle, level,
\* order_flow, and "indicator" once for RSI and once for MACD
ConfirmationSources == {"candle", "level", "order_flow", "rsi", "macd"}
\* confirmation_count = len(confirmations)
confirmation_count(sources) == Cardinality(sources)

\* base_probability = min(abs(signal_strength) * 1.5, 70)
BaseProbability(strength) == Min((Abs(strength) * 3 * ProbUnit) \div 2, 70 * ProbUnit)
\* confirmation_bonus = min(confirmation_count * 5, 20)
ConfirmationBonus(count) == Min(count * 5, 20) * ProbUnit
\* quality_bonus: +10 for a divergence signal, +8 for a liquidity sweep
QualityBonus(signals) ==
    ((IF "divergence" \in signals THEN 10 ELSE 0)
       + (IF "liquidity_sweep" \in signals THEN 8 ELSE 0)) * ProbUnit
\* variant: the penalty grows with the number of confirmations
PenaltyGrowsWithCount(count) == count * 10 * ProbUnit
\* confirmation_penalty = max(0, (min_confirmations_required - count) * 10)
ConfirmationPenalty(count) ==
    Max(0, (MIN_CONFIRMATIONS_REQUIRED - count) * 10) * ProbUnit
RawProbability(strength, count, signals) ==
    BaseProbability(strength) + ConfirmationBonus(count) + QualityBonus(signals)
        - ConfirmationPenalty(count)

\* final_signal by the band signal_strength falls in
SignalBand(strength) ==
    IF strength > 30 THEN "strong_long"
    ELSE IF strength > 15 THEN "long"
    ELSE IF strength < -30 THEN "strong_short"
    ELSE IF strength < -15 THEN "short"
    ELSE IF Abs(strength) > 5 THEN (IF strength > 0 THEN "long" ELSE "short")
    ELSE "neutral"

\* the probability of the band, before the correction for too few
\* confirmations
BandProbability(strength, count, signals) ==
    LET raw == RawProbability(strength, count, signals)
        enough == count >= MIN_CONFIRMATIONS_REQUIRED
        P == ProbUnit
    IN  IF Abs(strength) > 30
        THEN IF enough THEN Min(60 * P + (raw * 4) \div 10, 92 * P)
             ELSE Max(35 * P, Min(45 * P + (raw * 3) \div 10, 75 * P))
        ELSE IF Abs(strength) > 15
        THEN IF enough THEN Min(45 * P + (raw * 35) \div 100, 75 * P)
             ELSE Max(30 * P, Min(35 * P + (raw * 25) \div 100, 60 * P))
        ELSE IF Abs(strength) > 5
        THEN IF enough THEN Max(30 * P, Min(30 * P + (raw * 3) \div 10, 55 * P))
             ELSE \* confirmation_ratio = max(0.3, count / 3)
                  LET num == IF count = 0 THEN 3 ELSE IF count = 1 THEN 10 ELSE 20
                      \* ratio = num / 30
                  IN  Max(20 * P, Min(25 * P + (raw * 2 * num) \div 300, 45 * P))
        ELSE 0

\* variant: no correction for too few confirmations
ProbabilityUncorrected(strength, count, signals) ==
    BandProbability(strength, count, signals)

\* probability as analyze_market returns it
Probability(strength, count, signals) ==
    LET p == BandProbability(strength, count, signals)
    IN  IF count < MIN_CONFIRMATIONS_REQUIRED /\ p > 0
        THEN \* confirmation_ratio = max(0.4, count / 3); max(p * ratio, 20)
             LET num == IF count = 2 THEN 10 ELSE 6
             IN  Max((p * num) \div 15, 20 * ProbUnit)
        ELSE p

\* the orchestrator at rest while a single function is exercised
OrchAtRest ==
    /\ accounts = {}
    /\ use_database = TRUE
    /\ user_data = [u \in Users |-> [auto_trading_enabled |-> FALSE,
                                     is_demo_mode |-> TRUE,
                                     max_open_positions |-> MAX_OPEN_POSITIONS,
                                     demo_balance |-> INITIAL_BALANCE]]
    /\ trades = << >>
    /\ exchange = [u \in Users |-> [positions |-> {}, equity |-> INITIAL_BALANCE]]
    /\ active_tasks = [u \in Users |-> 0]
    /\ tasks = [t \in TaskIds |-> FreeSlot]
    /\ sl_cooldowns = [k \in Users \X Symbols |-> None]
    /\ now = 0
    /\ event = NoEvent
    /\ commands = 0
    /\ limits = Limits(0, 0, 0, {}, FALSE)

MaxStrength == 36
StoreTrades == 2
Strengths == (-MaxStrength)..MaxStrength
QualitySignals == {"divergence", "liquidity_sweep"}
Trends4h == {"none", "bullish", "bearish"}
CancellationRules == {"", "pool_removed", "fvg_broken"}
LongSignals == {"long", "strong_long"}
ShortSignals == {"short", "strong_short"}

InitAna ==
    /\ \E st \in Strengths, src \in SUBSET ConfirmationSources,
          sg \in SUBSET QualitySignals :
          ana = [IdleAna EXCEPT !.pc = "call", !.strength = st,
                                !.sources = src, !.signals = sg]
    /\ cal = IdleCal
    /\ sel = IdleSel
    /\ imb = IdleImb
    /\ dec = IdleDec
    /\ OrchAtRest

\* analysis_ltf = self.analyzer.analyze_market(ohlcv_ltf, orderbook)
AnalyzeMarket ==
    /\ ana.pc = "call"
    /\ LET c == confirmation_count(ana.sources)
       IN  ana' = [ana EXCEPT
                     !.pc = "scored", !.count = c,
                     !.final_signal = SignalBand(ana.strength),
                     !.probability = Probability(ana.strength, c, ana.signals)]
    /\ UNCHANGED <<orchVars, cal, sel, imb, dec>>

\* analysis = self._check_signal_cancellation(...), then the early return of
\* analyze_and_trade when a cancellation reason is set
CheckSignalCancellation ==
    /\ ana.pc = "scored"
    /\ \E rule \in CancellationRules :
          IF ana.final_signal = "neutral" \/ rule = ""
          THEN ana' = [ana EXCEPT !.pc = "checked"]
          ELSE ana' = [ana EXCEPT !.pc = "cancelled",
                                  !.final_signal = "neutral",
                                  !.probability = 0,
                                  !.cancellation_reason = rule]
    /\ UNCHANGED <<orchVars, cal, sel, imb, dec>>

\* the 4H trend filter; the analysis then goes to _make_decision
TrendFilter ==
    /\ ana.pc = "checked"
    /\ \E trend_4h \in Trends4h :
          LET against ==
                  \/ ana.final_signal \in LongSignals /\ trend_4h = "bearish"
                  \/ ana.final_signal \in ShortSignals /\ trend_4h = "bullish"
              reduced == Max(0, ana.probability - TREND_PENALTY * ProbUnit)
          IN  IF ~against THEN ana' = [ana EXCEPT !.pc = "decision"]
              ELSE IF reduced < TREND_MIN_PROBABILITY * ProbUnit
              THEN ana' = [ana EXCEPT !.pc = "decision",
                                      !.probability = reduced,
                                      !.final_signal = "neutral",
                                      !.cancellation_reason = "against_4h_trend"]
              ELSE ana' = [ana EXCEPT !.pc = "decision", !.probability = reduced]
    /\ UNCHANGED <<orchVars, cal, sel, imb, dec>>

NextAna == AnalyzeMarket \/ CheckSignalCancellation \/ TrendFilter

SpecAna == InitAna /\ [][NextAna]_vars

\* C11: one more confirming source never lowers confirmation_count, and for
\* a fixed signal_strength (and fixed signals) the probability analyze_market
\* returns is non-decreasing in confirmation_count over the whole range of
\* counts, 0 to 5.
C11_ProbabilityMonotoneInConfirmations ==
    ana.pc = "scored" =>
        /\ ana.count = confirmation_count(ana.sources)
        /\ ana.probability = Probability(ana.strength, ana.count, ana.signals)
        /\ \A src \in ConfirmationSources :
              /\ confirmation_count(ana.sources \cup {src}) >= ana.count
              /\ Probability(ana.strength,
                             confirmation_count(ana.sources \cup {src}),
                             ana.signals) >= ana.probability
        /\ \A c \in 0..(Cardinality(ConfirmationSources) - 1) :
              Probability(ana.strength, c + 1, ana.signals)
                  >= Probability(ana.strength, c, ana.signals)

\* a weak signal with two confirmations, for which a third one raises the
\* probability
C11_Witness ==
    /\ ana.pc = "scored" /\ ana.count = 2 /\ ana.final_signal = "short"
    /\ ana.probability > 0
    /\ \E src \in ConfirmationSources \ ana.sources :
          Probability(ana.strength, 3, ana.signals) > ana.probability

\* C12 (as claimed): in every analysis of analyze_and_trade - after the
\* scoring, after the cancellation rules and after the trend filter, when it
\* is handed to the decision step - a neutral final_signal has probability 0
\* and a set cancellation_reason has a neutral final_signal.
C12_NeutralMeansZeroProbability ==
    ana.pc \in {"scored", "checked", "cancelled", "decision"} =>
        /\ ana.final_signal = "neutral" => ana.probability = 0
        /\ ana.cancellation_reason # "" => ana.final_signal = "neutral"

(***************************************************************************)
(* Scan cycle claims (checked under Spec)                                  *)
(***************************************************************************)
\* a scan task that is at an instrument and is not being cancelled
AtPair(t) == tasks[t].kind = "scan" /\ tasks[t].pc = "pair" /\ ~tasks[t].cancel

\* C13: within a scan cycle the instruments of the pair list are attempted
\* once each and in order: a cycle starts at the first instrument, every
\* attempt is followed by the next instrument (or, after the last one, by
\* the end of the cycle), and an exception raised by an attempt is only
\* reported: the loop stays alive and the remaining instruments follow.
C13_ExceptionNeverStopsTheCycle ==
    [][/\ \A t \in TaskIds :
            /\ (tasks[t].kind = "scan" /\ tasks[t].pc = "check"
                    /\ tasks'[t].pc = "pair") => tasks'[t].i = 1
            /\ (AtPair(t) /\ tasks'[t].i # tasks[t].i) =>
                  /\ tasks'[t].kind = "scan"
                  /\ tasks'[t].user = tasks[t].user
                  /\ IF tasks[t].i < Len(DEFAULT_PAIRS)
                     THEN tasks'[t].pc = "pair" /\ tasks'[t].i = tasks[t].i + 1
                     ELSE tasks'[t].pc = "check"
                  /\ event'.kind \in {"open", "error"} =>
                        event'.symbol = DEFAULT_PAIRS[tasks[t].i]
       /\ event'.kind = "error" =>
            \E t \in TaskIds :
               /\ AtPair(t) /\ tasks[t].user = event'.user
               /\ DEFAULT_PAIRS[tasks[t].i] = event'.symbol
               /\ tasks'[t].kind = "scan"
               /\ IF tasks[t].i < Len(DEFAULT_PAIRS)
                  THEN tasks'[t].pc = "pair" /\ tasks'[t].i = tasks[t].i + 1
                  ELSE tasks'[t].pc = "check"
      ]_vars

\* the first instrument raised and the second one is about to be attempted
C13_Witness ==
    /\ event.kind = "error" /\ event.symbol = DEFAULT_PAIRS[1]
    /\ \E t \in TaskIds : AtPair(t) /\ tasks[t].user = event.user /\ tasks[t].i = 2

\* C14: no order is sized or placed at an entry price of zero or less: when
\* the entry of an actionable decision resolves to zero the call returns
\* before execute_trade (nothing is stored, nothing is sent to the exchange),
\* every announced order carries a positive entry price, and every stored
\* position has a positive entry price and a positive size.
C14_NoOrderAtZeroEntry ==
    /\ [](\A k \in 1..Len(trades) : trades[k].entry > 0 /\ trades[k].amount > 0)
    /\ [][/\ event'.kind = "open" => event'.price > 0
          /\ (event'.kind = "skip" /\ event'.price <= 0) =>
                (trades' = trades /\ exchange' = exchange)
          /\ (event'.kind \in {"skip", "error"}) =>
                (trades' = trades /\ exchange' = exchange)
         ]_vars

\* an actionable decision whose entry price resolved to zero was dropped
C14_Witness ==
    /\ event.kind = "skip" /\ event.why \in {"atr", "entry"} /\ event.price = 0

(***************************************************************************)
(* Position limit (checked under SpecLimit)                                *)
(***************************************************************************)
\* the open positions of an account: the open rows of the demo store, or the
\* positions the exchange holds
OpenPositionCount(u) ==
    IF user_data[u].is_demo_mode
    THEN Cardinality(OpenIdx(trades, u))
    ELSE Cardinality(exchange[u].positions)

\* C15: in demo and in live mode the number of open positions of an account
\* never exceeds the max_open_positions configured for it.
C15_OpenPositionsWithinMaximum ==
    \A u \in accounts : OpenPositionCount(u) <= user_data[u].max_open_positions

(***************************************************************************)
(* Monitor close claims (checked under SpecCooldown)                       *)
(***************************************************************************)
\* the monitor pass just taken closed the position of s for this reason
ClosedFor(s, reason) == [symbol |-> s, reason |-> reason] \in event'.closes

\* C16: a monitor close sets the cooldown of (account, symbol) exactly when
\* its reason is the stop-loss: a pass stamps the cooldown of every symbol it
\* closed at the stop, leaves the cooldown of every other (account, symbol)
\* as it was (closes at the target, at the holding time and at the forced
\* time included), and no other step touches a cooldown.
C16_CooldownOnlyAfterStopLoss ==
    [][IF event'.kind = "monitor"
       THEN \A a \in Users, s \in Symbols :
               IF a = event'.user /\ ClosedFor(s, "Stop Loss")
               THEN sl_cooldowns'[<<a, s>>] = now
               ELSE sl_cooldowns'[<<a, s>>] = sl_cooldowns[<<a, s>>]
       ELSE sl_cooldowns' = sl_cooldowns
      ]_vars

\* one pass closed one symbol at its stop and the other one for another
\* reason: only the first is cooling down
C16_Witness ==
    /\ event.kind = "monitor"
    /\ \E s1, s2 \in Symbols, reason \in {"Take Profit", "recommended_time", "force_time"} :
          /\ [symbol |-> s1, reason |-> "Stop Loss"] \in event.closes
          /\ [symbol |-> s2, reason |-> reason] \in event.closes
          /\ sl_cooldowns[<<event.user, s1>>] = now
          /\ sl_cooldowns[<<event.user, s2>>] = None

(***************************************************************************)
(* The demo store on its own: any sequence of opens and closes             *)
(***************************************************************************)
StoreClosePrices == {PriceLow, PriceHigh}

InitStore ==
    /\ accounts = {1}
    /\ use_database \in BOOLEAN
    /\ user_data = [u \in Users |-> [auto_trading_enabled |-> FALSE,
                                     is_demo_mode |-> TRUE,
                                     max_open_positions |-> MAX_OPEN_POSITIONS,
                                     demo_balance |-> INITIAL_BALANCE]]
    /\ trades = << >>
    /\ exchange = [u \in Users |-> [positions |-> {}, equity |-> INITIAL_BALANCE]]
    /\ active_tasks = [u \in Users |-> 0]
    /\ tasks = [t \in TaskIds |-> FreeSlot]
    /\ sl_cooldowns = [k \in Users \X Symbols |-> None]
    /\ now = 0
    /\ event = NoEvent
    /\ commands = 0
    /\ limits = Limits(0, StoreTrades, 0, Directions, FALSE)
    /\ cal = IdleCal
    /\ ana = IdleAna
    /\ sel = IdleSel
    /\ imb = IdleImb
    /\ dec = IdleDec

\* StatisticsManager.add_demo_trade -> UserDataManager.save_demo_position
add_demo_trade ==
    \E u \in accounts, s \in Symbols, d \in limits.directions :
       LET entry == MidPrice
           rec == RecommendationLevels(entry, d)
           pos == TradeData(u, s, d, (POSITION_VALUE * AmountUnit) \div entry,
                            entry, rec.stop_loss, rec.take_profit, now)
       IN  /\ OpenIdxFor(trades, u, s) = {} => Len(trades) < limits.trades
           /\ trades' = save_demo_position(use_database, trades, u, pos)
           /\ event' = [NoEvent EXCEPT !.kind = "open", !.user = u,
                                       !.symbol = s, !.price = entry]
           /\ UNCHANGED <<accounts, use_database, user_data, exchange, active_tasks,
                          tasks, sl_cooldowns, now, commands, limits, cal, ana, sel, imb, dec>>

\* StatisticsManager.close_demo_trade(symbol, close_price, reason) for any
\* symbol, with or without an open position
CloseDemoTrade ==
    \E u \in accounts, s \in Symbols, price \in StoreClosePrices :
       LET st == close_demo_trade([trades |-> trades,
                                   balance |-> user_data[u].demo_balance],
                                  u, s, price, "close", now)
       IN  /\ trades' = st.trades
           /\ user_data' = [user_data EXCEPT ![u].demo_balance = st.balance]
           /\ event' = [NoEvent EXCEPT !.kind = "close", !.user = u,
                                       !.symbol = s, !.price = price]
           /\ UNCHANGED <<accounts, use_database, exchange, active_tasks,
                          tasks, sl_cooldowns, now, commands, limits, cal, ana, sel, imb, dec>>

NextStore == add_demo_trade \/ CloseDemoTrade

SpecStore == InitStore /\ [][NextStore]_vars

\* sum of the realized PnL of the closed rows of an account
RECURSIVE ClosedPnl(_, _, _)
ClosedPnl(tr, u, n) ==
    IF n = 0 THEN 0
    ELSE ClosedPnl(tr, u, n - 1)
           + (IF tr[n].user = u /\ tr[n].status = "closed" THEN tr[n].pnl ELSE 0)

\* (exit - entry) * size for a long, (entry - exit) * size for a short
ExpectedPnl(row) ==
    IF row.direction = "long"
    THEN ((row.close_price - row.entry) * row.amount) \div AmountUnit
    ELSE ((row.entry - row.close_price) * row.amount) \div AmountUnit

\* C17: after any sequence of opens and closes in demo mode the balance is
\* the starting balance plus the realized PnL of the closed positions, each
\* credited once: a closed row carries (exit - entry) * size for a long and
\* (entry - exit) * size for a short and never changes again, a step moves
\* the balance by the PnL of the rows it closed, and a close that finds no
\* open position of the symbol changes neither the balance nor any row.
C17_BalanceIsStartPlusRealizedPnl ==
    /\ [](\A u \in accounts :
            /\ user_data[u].demo_balance
                  = INITIAL_BALANCE + ClosedPnl(trades, u, Len(trades))
            /\ \A k \in 1..Len(trades) :
                  trades[k].status = "closed" => trades[k].pnl = ExpectedPnl(trades[k]))
    /\ [][/\ \A k \in 1..Len(trades) :
               trades[k].status = "closed" => trades'[k] = trades[k]
          /\ (event'.kind = "close"
                /\ OpenIdxFor(trades, event'.user, event'.symbol) = {})
               => (trades' = trades /\ user_data' = user_data)
         ]_vars

\* a long closed at a loss and a short closed at a loss are both on the
\* balance, and the last close attempt found nothing to close
C17_Witness ==
    /\ event.kind = "close"
    /\ OpenIdxFor(trades, event.user, event.symbol) = {}
    /\ \E j, k \in 1..Len(trades) :
          /\ trades[j].status = "closed" /\ trades[j].direction = "long"
          /\ trades[k].status = "closed" /\ trades[k].direction = "short"
          /\ trades[j].pnl < 0 /\ trades[k].pnl < 0
    /\ user_data[1].demo_balance < INITIAL_BALANCE

(***************************************************************************)
(* The pair list of a scan loop: _refresh_scalping_pairs and the selection *)
(* at the top of each cycle of _auto_trading_loop                          *)
(***************************************************************************)
\* instruments the exchange lists: the default pairs, one denied and one
\* other instrument
Instruments == {"ZEC", "WIF", "ETH", "SOL"}
SCALPING_BLOCKED_PAIRS == {"DOGE", "ETH", "SUI", "DOT", "AVAX", "LTC", "SKR"}
MaxStoredPairs == 3
MaxTopPairs == 2
MaxCycles == 5

\* lists of distinct instruments of at most n entries
PairLists(n) ==
    UNION {{q \in [1..k -> Instruments] :
              \A a, b \in 1..k : a # b => q[a] # q[b]} : k \in 0..n}

InList(q, sym) == \E k \in 1..Len(q) : q[k] = sym

\* for sym in top: if sym in valid_pairs: continue; valid_pairs.append(sym);
\* if len(valid_pairs) >= desired: break
RECURSIVE Backfill(_, _, _)
Backfill(valid, top, desired) ==
    IF top = << >> \/ Len(valid) >= desired THEN valid
    ELSE IF InList(valid, Head(top)) THEN Backfill(valid, Tail(top), desired)
    ELSE Backfill(Append(valid, Head(top)), Tail(top), desired)

\* _refresh_scalping_pairs: the list it stores, given the instruments whose
\* ticker and candles answer with enough volume (ok) and the exchange's top
\* list by volume (top)
refresh_scalping_pairs(stored, ok, top) ==
    LET desired == Len(DEFAULT_PAIRS)
        current_pairs == IF stored = << >> \/ Len(stored) < desired
                         THEN DEFAULT_PAIRS ELSE stored
        Keeps(sym) == sym \notin SCALPING_BLOCKED_PAIRS /\ sym \in ok
        valid_pairs == SelectSeq(current_pairs, Keeps)
        filled == IF Len(valid_pairs) < desired
                  THEN Backfill(valid_pairs, top, desired) ELSE valid_pairs
    IN  SubSeq(filled, 1, Min(desired, Len(filled)))

\* the list a cycle starts from: the stored one if it is long enough
UserPairs(stored) ==
    IF stored # << >> /\ Len(stored) >= Len(DEFAULT_PAIRS)
    THEN stored ELSE DEFAULT_PAIRS

\* variant: the cycle takes the list as it is stored
KeepEveryPair(pairs) == pairs

\* pairs = [p for p in pairs if p not in SCALPING_BLOCKED_PAIRS]
NotBlockedPairs(pairs) ==
    LET Allowed(sym) == sym \notin SCALPING_BLOCKED_PAIRS
    IN  SelectSeq(pairs, Allowed)

InitSel ==
    /\ \E stored \in PairLists(MaxStoredPairs) :
          sel = [IdleSel EXCEPT !.pc = "top", !.stored = stored]
    /\ imb = IdleImb
    /\ dec = IdleDec
    /\ cal = IdleCal
    /\ ana = IdleAna
    /\ OrchAtRest

\* top of a cycle: cycle_count += 1, on the first and on every fifth cycle the
\* refresh (a failure of it is printed and the stored list stays), then the
\* list of this cycle; an empty list: sleep(900); continue
SelectPairs ==
    /\ sel.pc = "top" /\ sel.cycle_count < MaxCycles
    /\ LET cycle_count == sel.cycle_count + 1
           refreshes == cycle_count = 1 \/ cycle_count % 5 = 0
       IN  \E ok \in SUBSET Instruments, top \in PairLists(MaxTopPairs),
              refresh_ok \in BOOLEAN :
              LET refreshed == IF refreshes /\ refresh_ok
                               THEN refresh_scalping_pairs(sel.stored, ok, top)
                               ELSE sel.stored
                  user_pairs == UserPairs(refreshed)
                  pairs == NotBlockedPairs(user_pairs)
              IN  /\ ~refreshes => (ok = {} /\ top = << >> /\ refresh_ok)
                  /\ ~refresh_ok => (ok = {} /\ top = << >>)
                  /\ sel' = [pc |-> IF pairs = << >> THEN "top" ELSE "pair",
                             cycle_count |-> cycle_count,
                             stored |-> user_pairs,
                             pairs |-> pairs,
                             i |-> IF pairs = << >> THEN 0 ELSE 1,
                             symbol |-> ""]
    /\ UNCHANGED <<orchVars, cal, ana, imb, dec>>

\* for symbol in pairs: await self._analyze_and_trade(user_id, symbol, ...)
AnalysePair ==
    /\ sel.pc = "pair"
    /\ sel' = [sel EXCEPT !.symbol = sel.pairs[sel.i],
                          !.pc = IF sel.i < Len(sel.pairs) THEN "pair" ELSE "top",
                          !.i = IF sel.i < Len(sel.pairs) THEN sel.i + 1 ELSE 0]
    /\ UNCHANGED <<orchVars, cal, ana, imb, dec>>

NextSel == SelectPairs \/ AnalysePair

SpecSel == InitSel /\ [][NextSel]_vars

\* C18: no instrument of SCALPING_BLOCKED_PAIRS is in the list of a cycle or
\* handed to the analysis, whatever the account's stored list holds and
\* whatever the refresh backfilled from the exchange's top list by volume.
C18_BlockedPairsNeverAnalysed ==
    /\ sel.symbol \notin SCALPING_BLOCKED_PAIRS
    /\ \A k \in 1..Len(sel.pairs) : sel.pairs[k] \notin SCALPING_BLOCKED_PAIRS

\* a refresh left a denied instrument in the stored list and the cycle went
\* on to analyse the other instrument of that list
C18_Witness ==
    /\ sel.cycle_count = 1
    /\ \E k \in 1..Len(sel.stored) : sel.stored[k] \in SCALPING_BLOCKED_PAIRS
    /\ sel.symbol # "" /\ InList(sel.stored, sel.symbol)

(***************************************************************************)
(* Blackout window (checked under Spec)                                    *)
(***************************************************************************)
\* C19: whenever the time check of a scan cycle reads a blocked UTC hour or
\* a blocked weekday, the cycle ends there: the loop is back at the top of
\* the cycle without having gone to any instrument, and no position was
\* stored, no order sent, no setting changed.
C19_BlackoutCycleDoesNothing ==
    [][(/\ event'.kind \in {"blackout", "cycle", "auto_stop"}
        /\ event' # event
        /\ \/ event'.hour \in SCALPING_BLOCKED_HOURS
           \/ event'.weekday \in SCALPING_BLOCKED_WEEKDAYS)
       => /\ event'.kind = "blackout"
          /\ tasks' = tasks
          /\ trades' = trades /\ exchange' = exchange /\ user_data' = user_data
      ]_vars

\* a cycle of a free hour on a blocked weekday was dropped while the account
\* was enabled, and its loop waits at the top of the cycle
C19_Witness ==
    /\ event.kind = "blackout"
    /\ event.hour \notin SCALPING_BLOCKED_HOURS
    /\ event.weekday \in SCALPING_BLOCKED_WEEKDAYS
    /\ user_data[event.user].auto_trading_enabled
    /\ \E t \in TaskIds : /\ tasks[t].kind = "scan" /\ tasks[t].user = event.user
                          /\ tasks[t].pc = "check"

(***************************************************************************)
(* Volatility floor (checked under Spec)                                   *)
(***************************************************************************)
\* C20: every order the scan loop places follows, in the same pass over the
\* instrument, a calibrator result whose atr_pct is at least
\* ATR_MIN_PERCENT; with a lower atr_pct or without a calibrator result no
\* order is placed.
C20_OrderOnlyAfterAtrCheck ==
    [][event'.kind = "open" =>
          (event'.atr_pct # None /\ event'.atr_pct >= ATR_MIN_PERCENT)]_vars

(***************************************************************************)
(* Imbalance zones: AdvancedMarketAnalyzer.find_imbalance                  *)
(***************************************************************************)
\* candles are [high, low] in ticks; the levels leave gaps below and above
\* 0.2 % of the price
MaxCandles == 3
CandleLevels == {9800, 9810, 10000, 10300}
Candles == {c \in [high : CandleLevels, low : CandleLevels] : c.low <= c.high}
CandleSeries == UNION {[1..n -> Candles] : n \in 0..MaxCandles}

\* the zone of the pair (ohlcv[i-1], ohlcv[i]), << >> if there is none
ImbalanceAt(ohlcv, i) ==
    LET prev_candle == ohlcv[i - 1]
        curr_candle == ohlcv[i]
    IN  IF curr_candle.low > prev_candle.high
        THEN <<[type |-> "bullish_imb", zone_start |-> prev_candle.high,
                zone_end |-> curr_candle.low, timestamp |-> i,
                strength |-> IF (curr_candle.low - prev_candle.high) * 1000
                                    > prev_candle.high * 2
                             THEN "strong" ELSE "weak",
                direction |-> "long"]>>
        ELSE IF curr_candle.high < prev_candle.low
        THEN <<[type |-> "bearish_imb", zone_start |-> curr_candle.high,
                zone_end |-> prev_candle.low, timestamp |-> i,
                strength |-> IF (prev_candle.low - curr_candle.high) * 1000
                                    > prev_candle.low * 2
                             THEN "strong" ELSE "weak",
                direction |-> "short"]>>
        ELSE << >>

\* for i in range(1, len(df)): ... imbalances.append(imbalance)
RECURSIVE ImbalancesUpTo(_, _)
ImbalancesUpTo(ohlcv, i) ==
    IF i < 2 THEN << >>
    ELSE ImbalancesUpTo(ohlcv, i - 1) \o ImbalanceAt(ohlcv, i)

\* if len(ohlcv) < 3: return []
find_imbalance(ohlcv) ==
    IF Len(ohlcv) < 3 THEN << >> ELSE ImbalancesUpTo(ohlcv, Len(ohlcv))

InitImb ==
    /\ \E ohlcv \in CandleSeries : imb = [IdleImb EXCEPT !.pc = "call", !.ohlcv = ohlcv]
    /\ cal = IdleCal
    /\ ana = IdleAna
    /\ sel = IdleSel
    /\ dec = IdleDec
    /\ OrchAtRest

FindImbalance ==
    /\ imb.pc = "call"
    /\ imb' = [imb EXCEPT !.pc = "done", !.result = find_imbalance(imb.ohlcv)]
    /\ UNCHANGED <<orchVars, cal, ana, sel, dec>>

NextImb == FindImbalance

SpecImb == InitImb /\ [][NextImb]_vars

\* the zones reported for the candle at position i
ZonesAt(i) == {k \in 1..Len(imb.result) : imb.result[k].timestamp = i}

\* C21: for every pair of consecutive candles (prev, cur) of the series the
\* result holds a bullish zone [prev.high, cur.low] exactly when
\* cur.low > prev.high, a bearish zone [cur.high, prev.low] exactly when
\* cur.high < prev.low, and no zone for the pair otherwise.
C21_ImbalanceZonePerPair ==
    imb.pc = "done" =>
      \A i \in 2..Len(imb.ohlcv) :
         LET prev == imb.ohlcv[i - 1]
             cur == imb.ohlcv[i]
         IN  IF cur.low > prev.high
             THEN \E k \in ZonesAt(i) :
                     /\ ZonesAt(i) = {k}
                     /\ imb.result[k].type = "bullish_imb"
                     /\ imb.result[k].zone_start = prev.high
                     /\ imb.result[k].zone_end = cur.low
             ELSE IF cur.high < prev.low
             THEN \E k \in ZonesAt(i) :
                     /\ ZonesAt(i) = {k}
                     /\ imb.result[k].type = "bearish_imb"
                     /\ imb.result[k].zone_start = cur.high
                     /\ imb.result[k].zone_end = prev.low
             ELSE ZonesAt(i) = {}

(***************************************************************************)
(* Confirmation buckets (checked under SpecAna)                            *)
(***************************************************************************)
\* the bucket a confirming source belongs to: candle pattern, price near a
\* zone, order flow, indicators (RSI and MACD)
BucketOf(source) == IF source \in {"rsi", "macd"} THEN "indicator" ELSE source
Buckets(sources) == {BucketOf(source) : source \in sources}

\* C22: confirmation_count is the number of buckets with a vote, each of the
\* four buckets counting at most once, so it lies in 0..4; a candle vote, an
\* oscillator vote and an order-flow vote together give at least
\* MIN_CONFIRMATIONS_REQUIRED.
C22_OneConfirmationPerBucket ==
    ana.pc # "call" =>
        /\ ana.count = Cardinality(Buckets(ana.sources))
        /\ ana.count \in 0..4
        /\ {"candle", "rsi", "order_flow"} \subseteq ana.sources
              => ana.count >= MIN_CONFIRMATIONS_REQUIRED

(***************************************************************************)
(* Isolation of accounts (checked under SpecTwo)                           *)
(***************************************************************************)
RowsOf(tr, u) ==
    LET Mine(row) == row.user = u
    IN  SelectSeq(tr, Mine)

\* nothing of account b changes in this step
AccountUntouched(b) ==
    /\ active_tasks'[b] = active_tasks[b]
    /\ \A t \in TaskIds : (tasks[t].user = b \/ tasks'[t].user = b) => tasks'[t] = tasks[t]
    /\ user_data'[b] = user_data[b]
    /\ exchange'[b] = exchange[b]
    /\ RowsOf(trades', b) = RowsOf(trades, b)
    /\ \A s \in Symbols : sl_cooldowns'[<<b, s>>] = sl_cooldowns[<<b, s>>]

\* a step of one of account a's loops, told by what it leaves behind: it is
\* no command, and it moves one of a's tasks or reports on a's behalf (a
\* monitor pass of a live account changes nothing at all)
LoopStepOf(a) ==
    /\ commands' = commands
    /\ \E t \in TaskIds :
          /\ tasks[t].kind # "none" /\ tasks[t].user = a
          /\ tasks'[t] # tasks[t] \/ (event'.kind # "none" /\ event'.user = a)

\* C23: a step of a scan loop or monitor loop of one account (an exception,
\* a drawdown halt, a cancellation and a stop-loss close included) leaves
\* the registration, the loops, the enabled flag, the positions, the
\* balance and the cooldowns of every other account as they were.
C23_LoopStepsTouchOneAccount ==
    [][\A a \in Users :
          LoopStepOf(a) => \A b \in Users \ {a} : AccountUntouched(b)]_vars

\* the monitor of one account closed a position at its stop while the other
\* account was enabled with a registered loop and an open position
C23_Witness ==
    /\ event.kind = "monitor"
    /\ \E c \in event.closes : c.reason = "Stop Loss"
    /\ \E b \in Users \ {event.user} :
          /\ user_data[b].auto_trading_enabled
          /\ active_tasks[b] # 0
          /\ OpenIdx(trades, b) # {}
(***************************************************************************)
(* Order of the exits in one monitor check                                 *)
(***************************************************************************)
\* the stop or the target of a position is reached at a price, as claimed
StopHit(row, price) ==
    /\ row.stop_loss # None
    /\ IF row.direction = "long" THEN price * LevelScale <= row.stop_loss
                                  ELSE price * LevelScale >= row.stop_loss

TargetHit(row, price) ==
    /\ row.take_profit # None
    /\ IF row.direction = "long" THEN price * LevelScale >= row.take_profit
                                  ELSE price * LevelScale <= row.take_profit

\* C24 (as claimed): in a monitor pass, for an open position whose price was
\* fetched: held for force_close_minutes or longer it is closed as a forced
\* time exit whatever the price; otherwise with the stop or the target
\* reached it is closed with that reason; otherwise held for
\* max_holding_minutes or longer it is closed as a recommended time exit;
\* otherwise it stays open and unchanged.
C24_ExitPriority ==
    [][event'.kind = "monitor" =>
          \A k \in 1..Len(trades) :
              (/\ trades[k].user = event'.user
               /\ trades[k].status = "open"
               /\ trades[k].symbol \in event'.quoted)
                  => LET held == now - trades[k].entry_time
                         after == trades'[k]
                     IN  IF held >= FORCE_CLOSE_MINUTES
                         THEN after.status = "closed" /\ after.close_reason = "force_time"
                         ELSE IF after.status = "closed"
                         THEN /\ after.close_reason =
                                   (IF StopHit(trades[k], after.close_price)
                                    THEN "Stop Loss"
                                    ELSE IF TargetHit(trades[k], after.close_price)
                                    THEN "Take Profit"
                                    ELSE "recommended_time")
                              /\ (after.close_reason = "recommended_time"
                                     => held >= MAX_HOLDING_MINUTES)
                         ELSE held < MAX_HOLDING_MINUTES /\ after = trades[k]]_vars

(***************************************************************************)
(* The decision step: TradingEngine._make_decision on the analysis that    *)
(* analyze_and_trade hands it (ana), and on what the call reads besides    *)
(* (dec): order flow, sweeps, structure, the indicators' signals, volume   *)
(***************************************************************************)
BASE_MIN_PROBABILITY_STRONG == 55
BASE_MIN_PROBABILITY_NORMAL == 60
\* order-flow strength, in tenths
OF_BONUS_STRENGTH == 20
OF_OPEN_STRENGTH == 25
OF_OPEN_PROBABILITY == 40
QUALITY_OPEN_PROBABILITY == 45

\* strengths of the fused signal a decision is taken on: every band, both ways
DecStrengths == {-48, -36, -20, -8, 0, 8, 20, 36, 48}
OfSignals == {"neutral", "long", "short"}
OfStrengths == {10, 25}
Structures == {{}, {"bos", "choch"}}
SignalCounts == {0, 3}

\* quality_bonus of _make_decision
DecisionQualityBonus(d) ==
    (IF d.has_liquidity_sweep THEN 8 ELSE 0)
      + (IF d.has_divergence THEN 10 ELSE 0)
      + (IF "bos" \in d.structure THEN 6 ELSE 0)
      + (IF "choch" \in d.structure THEN 5 ELSE 0)
      + (IF d.of_strength > OF_BONUS_STRENGTH THEN 5 ELSE 0)
      + (IF d.total_signals >= 3 THEN 7 ELSE IF d.total_signals >= 2 THEN 4 ELSE 0)

\* confirmation_penalty = max(0, (min_confirmations - confirmation_count) * 8)
DecisionPenalty(count) == Max(0, (MIN_CONFIRMATIONS_REQUIRED - count) * 8)

\* the action of the normal band and of the divergence + sweep branch:
\* f'open_{final_signal}'
OpenOf(final_signal) == "open_" \o final_signal

\* _make_decision(analysis): a is the analysis (final_signal, probability,
\* count), d what else the call reads; the result is d with the action, the
\* probability the action was decided on and the two thresholds
_make_decision(a, d) ==
    LET P == ProbUnit
        quality_bonus == DecisionQualityBonus(d)
        confirmation_penalty == DecisionPenalty(a.count)
        min_strong == Max(35, BASE_MIN_PROBABILITY_STRONG - quality_bonus
                                + confirmation_penalty)
        min_normal == Max(40, BASE_MIN_PROBABILITY_NORMAL - quality_bonus
                                + confirmation_penalty)
        signal_conflict ==
            \/ /\ a.final_signal \in LongSignals
               /\ (d.rsi_signal = "overbought" \/ d.macd_signal = "bearish")
            \/ /\ a.final_signal \in ShortSignals
               /\ (d.rsi_signal = "oversold" \/ d.macd_signal = "bullish")
        \* probability = max(probability * 0.7, 30)
        p1 == IF signal_conflict THEN Max((a.probability * 7) \div 10, 30 * P)
              ELSE a.probability
        \* volume_ratio < 0.7: probability = max(probability * 0.85, 25)
        p2 == IF d.low_volume THEN Max((p1 * 17) \div 20, 25 * P) ELSE p1
        ret(act, p) == [d EXCEPT !.pc = "done", !.action = act, !.probability = p,
                                 !.min_probability_strong = min_strong,
                                 !.min_probability_normal = min_normal]
    IN  IF a.count < MIN_CONFIRMATIONS_REQUIRED /\ a.probability < min_normal * P
        THEN ret("skip", a.probability)
        ELSE IF a.final_signal = "strong_long" /\ p2 >= min_strong * P
        THEN ret("open_long", p2)
        ELSE IF a.final_signal = "strong_short" /\ p2 >= min_strong * P
        THEN ret("open_short", p2)
        ELSE IF a.final_signal \in {"long", "short"} /\ p2 >= min_normal * P
        THEN ret(OpenOf(a.final_signal), p2)
        ELSE IF /\ d.of_signal = "long" /\ d.of_strength >= OF_OPEN_STRENGTH
                /\ p2 >= OF_OPEN_PROBABILITY * P
        THEN ret("open_long", p2)
        ELSE IF /\ d.of_signal = "short" /\ d.of_strength >= OF_OPEN_STRENGTH
                /\ p2 >= OF_OPEN_PROBABILITY * P
        THEN ret("open_short", p2)
        ELSE IF /\ d.has_divergence /\ d.has_liquidity_sweep
                /\ p2 >= QUALITY_OPEN_PROBABILITY * P
        THEN ret(IF a.final_signal # "neutral" THEN OpenOf(a.final_signal) ELSE "skip",
                 p2)
        ELSE ret("skip", p2)

\* what the call can find next to the analysis in ana: the confirmations
\* list names the order flow, the RSI and the MACD exactly when their signal
\* is not neutral, a divergence is read from the same signals list, and a
\* sweep signal in that list comes from a detected sweep
DecisionInputs ==
    {d \in [pc : {"call"}, of_signal : OfSignals, of_strength : OfStrengths,
            has_liquidity_sweep : BOOLEAN, has_divergence : BOOLEAN,
            structure : Structures, total_signals : SignalCounts,
            rsi_signal : {"neutral", "oversold", "overbought"},
            macd_signal : {"neutral", "bullish", "bearish"},
            low_volume : BOOLEAN, action : {""}, probability : {0},
            min_probability_strong : {0}, min_probability_normal : {0}] :
        /\ (d.of_signal # "neutral") = ("order_flow" \in ana.sources)
        /\ (d.rsi_signal # "neutral") = ("rsi" \in ana.sources)
        /\ (d.macd_signal # "neutral") = ("macd" \in ana.sources)
        /\ d.has_divergence = ("divergence" \in ana.signals)
        /\ "liquidity_sweep" \in ana.signals => d.has_liquidity_sweep}

InitDec ==
    /\ \E st \in DecStrengths, src \in SUBSET ConfirmationSources,
          sg \in SUBSET QualitySignals :
          ana = [IdleAna EXCEPT !.pc = "call", !.strength = st,
                                !.sources = src, !.signals = sg]
    /\ cal = IdleCal
    /\ sel = IdleSel
    /\ imb = IdleImb
    /\ dec = IdleDec
    /\ OrchAtRest

\* decision = self._make_decision(analysis)
MakeDecision ==
    /\ ana.pc = "decision" /\ dec.pc = "idle"
    /\ \E d \in DecisionInputs : dec' = _make_decision(ana, d)
    /\ UNCHANGED <<orchVars, cal, ana, sel, imb>>

\* if cancellation_reason: return {'decision': {'action': 'skip', ...}}
ReturnCancelled ==
    /\ ana.pc = "cancelled" /\ dec.pc = "idle"
    /\ dec' = [dec EXCEPT !.pc = "done", !.action = "skip"]
    /\ UNCHANGED <<orchVars, cal, ana, sel, imb>>

NextDec ==
    \/ AnalyzeMarket
    \/ CheckSignalCancellation
    \/ TrendFilter
    \/ MakeDecision
    \/ ReturnCancelled

SpecDec == InitDec /\ [][NextDec]_vars
\* the gates of the claim, on the probability the decision was taken on
StrongGate ==
    /\ ana.final_signal \in {"strong_long", "strong_short"}
    /\ dec.min_probability_strong >= 35
    /\ dec.probability >= dec.min_probability_strong * ProbUnit

NormalGate ==
    /\ ana.final_signal \in {"long", "short"}
    /\ dec.min_probability_normal >= 40
    /\ dec.probability >= dec.min_probability_normal * ProbUnit

OrderFlowGate ==
    /\ dec.of_strength >= OF_OPEN_STRENGTH
    /\ dec.probability >= 40 * ProbUnit

QualityGate ==
    /\ dec.has_divergence /\ dec.has_liquidity_sweep
    /\ dec.probability >= 45 * ProbUnit

Opens == dec.pc = "done" /\ dec.action # "skip"

\* C25: _make_decision returns open_long, open_short or skip; it returns an
\* open action only through one of four gates on the effective probability
\* (strong band at its threshold >= 35, normal band at its threshold >= 40,
\* order-flow strength >= 2.5 at 40, divergence with a sweep at 45), hence
\* never with an effective probability below 35.
C25_OpenOnlyThroughAGate ==
    dec.pc = "done" =>
        /\ dec.action \in {"open_long", "open_short", "skip"}
        /\ Opens => (StrongGate \/ NormalGate \/ OrderFlowGate \/ QualityGate)
        /\ Opens => dec.probability >= 35 * ProbUnit

\* an opening through the order-flow gate below the threshold of its band
C25_Witness ==
    /\ Opens
    /\ OrderFlowGate /\ ~StrongGate /\ ~NormalGate /\ ~QualityGate
    /\ dec.probability < 45 * ProbUnit

\* C29 (as claimed): the action agrees with the fused signal: open_long only
\* on long or strong_long, open_short only on short or strong_short, and a
\* neutral final_signal (also one forced to neutral by a cancellation rule or
\* by the 4H trend filter) yields skip.
C29_ActionAgreesWithSignal ==
    dec.pc = "done" =>
        /\ dec.action = "open_long" => ana.final_signal \in LongSignals
        /\ dec.action = "open_short" => ana.final_signal \in ShortSignals
        /\ ana.final_signal = "neutral" => dec.action = "skip"

(***************************************************************************)
(* Who writes an open position                                             *)
(***************************************************************************)
\* C26 (as claimed): a position that is open is changed only by the monitor,
\* and only by closing it; no other step changes its entry price, size,
\* stop, target or opening time.
C26_OpenPositionOnlyClosedByMonitor ==
    [][\A k \in 1..Len(trades) :
          (trades[k].status = "open" /\ trades'[k] # trades[k])
              => /\ event'.kind = "monitor"
                 /\ trades'[k].status = "closed"
                 /\ trades'[k].entry = trades[k].entry
                 /\ trades'[k].amount = trades[k].amount
                 /\ trades'[k].stop_loss = trades[k].stop_loss
                 /\ trades'[k].take_profit = trades[k].take_profit
                 /\ trades'[k].entry_time = trades[k].entry_time]_vars

(***************************************************************************)
(* Cooldowns across a stop and a start                                     *)
(***************************************************************************)
\* C27 (as claimed): enabling an account resets its runtime state: when the
\* start command has been served, no pair of the account is in a stop-loss
\* cooldown, so that no cooldown from before the stop blocks an opening of
\* the new session.
C27_StartClearsCooldowns ==
    [][event'.kind = "enabled" =>
          \A s \in Symbols :
              ~InCooldown(sl_cooldowns', event'.user, s, now')]_vars

(***************************************************************************)
(* The task registry and the scan loops                                    *)
(***************************************************************************)
\* C28 (as claimed): whatever the order of start, stop and the ends of scan
\* loops, after every step the registry names, for each account, its one
\* running scan loop and nothing else: a registered task is a running scan
\* loop of the account, every running scan loop is the registered one (none
\* unregistered, none twice), and a start command leaves behind a registered
\* loop that is not on its way out.
C28_RegistryIsTheLiveLoop ==
    [][/\ \A u \in accounts :
            /\ active_tasks'[u] # 0 => active_tasks'[u] \in RunningScans(u)'
            /\ RunningScans(u)' \subseteq {active_tasks'[u]}
       /\ event'.kind = "enabled" =>
            tasks'[active_tasks'[event'.user]].pc # "halt"]_vars

(***************************************************************************)
(* Levels and the recorded entry price                                     *)
(***************************************************************************)
\* C30 (as claimed): every position the scan loop records as open has its
\* levels on both sides of the recorded entry price (the price the order was
\* filled at): stop < entry < target for a long, target < entry < stop for a
\* short.
C30_LevelsStraddleEntry ==
    \A k \in 1..Len(trades) :
        (/\ trades[k].status = "open"
         /\ trades[k].stop_loss # None /\ trades[k].take_profit # None)
            => IF trades[k].direction = "long"
               THEN /\ trades[k].stop_loss < trades[k].entry * LevelScale
                    /\ trades[k].entry * LevelScale < trades[k].take_profit
               ELSE /\ trades[k].take_profit < trades[k].entry * LevelScale
                    /\ trades[k].entry * LevelScale < trades[k].stop_loss
====
